---- MODULE Spec2Model ----
(***************************************************************************)
(* Model of the grading-info extractor of PowerBIMentor                    *)
(* (src/PowerBIMentor/utils/processor.py, extract_grading_info).           *)
(*                                                                         *)
(* JSON values are tagged records; Python strings are sequences of         *)
(* one-character strings, so that substring tests, trimming, joining and   *)
(* the File.Contents pattern are computed character by character.          *)
(* A JSON mapping is a function from key names to values; an absent key    *)
(* is a key that is not in the function's DOMAIN.                          *)
(***************************************************************************)
EXTENDS Integers, Sequences, FiniteSets, TLC

\* ------------------------------------------------------------------ bounds

\* Longest `tables` list of an input tree.
MaxTables == 2

\* Longest relationships / hierarchies / measures / partitions list.
MaxItems == 2

\* ------------------------------------------------------------- JSON values

None == [t |-> "null"]
S(s) == [t |-> "str", v |-> s]
B(b) == [t |-> "bool", v |-> b]
N(n) == [t |-> "num", v |-> n]
L(l) == [t |-> "list", v |-> l]
D(d) == [t |-> "dict", v |-> d]

\* Marks a key left out of a mapping under construction.
Absent == [t |-> "absent"]

\* The mapping holding the keys of r that are not Absent.
Obj(r) == [k \in {kk \in DOMAIN r : r[kk] # Absent} |-> r[k]]

EmptyDict == [k \in {} |-> None]

IsStr(x) == x.t = "str"
IsList(x) == x.t = "list"
IsDict(x) == x.t = "dict"

\* --------------------------------------------------------- string literals

Str_LocalDateTable == <<"L", "o", "c", "a", "l", "D", "a", "t", "e", "T", "a", "b", "l", "e">>
Str_Sheet1 == <<"S", "h", "e", "e", "t", "1">>
Str_TemplateId == <<"T", "e", "m", "p", "l", "a", "t", "e", "I", "d">>
Str_SAMEPERIODLASTYEAR == <<"S", "A", "M", "E", "P", "E", "R", "I", "O", "D", "L", "A", "S", "T", "Y", "E", "A", "R">>
Str_YoY == <<"Y", "o", "Y">>
Str_Unknown == <<"U", "n", "k", "n", "o", "w", "n">>
Str_calculated == <<"c", "a", "l", "c", "u", "l", "a", "t", "e", "d">>
Str_standard == <<"s", "t", "a", "n", "d", "a", "r", "d">>
Str_File == <<"F", "i", "l", "e">>
Str_m == <<"m">>
Str_FileContentsOpen == <<"F", "i", "l", "e", ".", "C", "o", "n", "t", "e", "n", "t", "s", "(", "\"">>
Str_NoneText == <<"N", "o", "n", "e">>
Str_TrueText == <<"T", "r", "u", "e">>
Str_FalseText == <<"F", "a", "l", "s", "e">>
Quote == "\""
Whitespace == {" ", "\n", "\t"}
Digits == <<"0", "1", "2", "3", "4", "5", "6", "7", "8", "9">>

\* ------------------------------------------------------- Python primitives

\* bool(x)
Truthy(x) ==
  CASE x.t = "null" -> FALSE
    [] x.t = "bool" -> x.v
    [] x.t = "num" -> x.v # 0
    [] x.t = "str" -> Len(x.v) > 0
    [] x.t = "list" -> Len(x.v) > 0
    [] x.t = "dict" -> DOMAIN x.v # {}

\* a or b
Or(a, b) == IF Truthy(a) THEN a ELSE b

\* d.get(k, default) on a mapping d
GetOr(d, k, default) == IF k \in DOMAIN d THEN d[k] ELSE default

\* d.get(k)
Get(d, k) == GetOr(d, k, None)

\* needle in s, for strings: s[i .. i+len-1] == needle at some i
StartsAt(s, needle, i) ==
  /\ i + Len(needle) - 1 <= Len(s)
  /\ \A j \in 1..Len(needle) : s[i + j - 1] = needle[j]

RECURSIVE FindFrom(_, _, _)
\* The least position >= i at which needle occurs in s, or 0.
FindFrom(s, needle, i) ==
  IF i + Len(needle) - 1 > Len(s) THEN 0
  ELSE IF StartsAt(s, needle, i) THEN i
  ELSE FindFrom(s, needle, i + 1)

Contains(s, needle) == FindFrom(s, needle, 1) # 0

RECURSIVE LStrip(_)
LStrip(s) == IF s # <<>> /\ Head(s) \in Whitespace THEN LStrip(Tail(s)) ELSE s

RECURSIVE RStrip(_)
RStrip(s) ==
  IF s # <<>> /\ s[Len(s)] \in Whitespace THEN RStrip(SubSeq(s, 1, Len(s) - 1)) ELSE s

\* s.strip()
Strip(s) == RStrip(LStrip(s))

RECURSIVE Join(_, _)
\* sep.join(parts), parts a sequence of strings
Join(sep, parts) ==
  IF parts = <<>> THEN <<>>
  ELSE IF Len(parts) = 1 THEN parts[1]
  ELSE parts[1] \o sep \o Join(sep, Tail(parts))

\* f"{x}" for the values the model feeds to it
Fmt(x) ==
  CASE x.t = "str" -> x.v
    [] x.t = "null" -> Str_NoneText
    [] x.t = "bool" -> IF x.v THEN Str_TrueText ELSE Str_FalseText
    [] x.t = "num" -> <<Digits[x.v + 1]>>

\* Values a for loop can iterate; iterating anything else raises TypeError.
Iterable(x) == x.t \in {"list", "str", "dict"}

\* The items a for loop visits (a string yields its characters).
Items(x) ==
  CASE x.t = "list" -> x.v
    [] x.t = "str" -> [i \in 1..Len(x.v) |-> S(<<x.v[i]>>)]

\* ------------------------------------------- extract_grading_info, helpers

\* Mutant of ModelRoot: the nested "model" mapping is never entered.
ModelRootIsTree(m) == m

\* model.get("model") if isinstance(model.get("model"), dict) else model
ModelRoot(m) == IF IsDict(Get(m, "model")) THEN Get(m, "model").v ELSE m

\* The grading_info mapping as constructed before the loops.
InitialGradingInfo(m) ==
  [model_name |-> Or(Or(Get(m, "name"), Get(ModelRoot(m), "name")), S(Str_Unknown)),
   compatibility_level |->
     Or(Get(m, "compatibilityLevel"), Get(ModelRoot(m), "compatibilityLevel")),
   tables |-> <<>>,
   measures |-> <<>>,
   relationships |-> <<>>,
   hierarchies |-> <<>>,
   data_source |-> None,
   summary |-> EmptyDict]

\* Mutant of TableSkipped: the isPrivate test forgotten.
TableSkippedHiddenOnly(table) == Truthy(Get(table, "isHidden"))

\* table.get("isHidden") or table.get("isPrivate")
TableSkipped(table) == Truthy(Get(table, "isHidden")) \/ Truthy(Get(table, "isPrivate"))

\* Mutant of ListOf: table[key]-like access with neither default nor `or []`.
ListOfNoDefault(d, key) == Get(d, key)

\* table.get(key, []) or []
ListOf(d, key) == Or(GetOr(d, key, L(<<>>)), L(<<>>))

\* Whether looping over `table.get(key, []) or []` and calling .get on each
\* item raises: a truthy non-list is not iterable or yields items without .get.
LoopRaises(d, key) ==
  \/ ~IsList(ListOf(d, key))
  \/ \E i \in 1..Len(ListOf(d, key).v) : ~IsDict(ListOf(d, key).v[i])

\* Mutant of ColumnInfo: is_calculated set for any truthy `type`.
ColumnInfoAnyType(col) ==
  [name |-> Get(col, "name"),
   data_type |-> Get(col, "dataType"),
   summarize_by |-> Get(col, "summarizeBy"),
   is_calculated |-> Truthy(Get(col, "type"))]

ColumnInfo(col) ==
  [name |-> Get(col, "name"),
   data_type |-> Get(col, "dataType"),
   summarize_by |-> Get(col, "summarizeBy"),
   is_calculated |-> (Get(col, "type") = S(Str_calculated))]

ColumnKept(col) == ~Truthy(Get(col.v, "isHidden"))

\* table_info["columns"] after the column loop
Columns(table) ==
  LET kept == SelectSeq(ListOf(table, "columns").v, ColumnKept)
  IN [i \in 1..Len(kept) |-> ColumnInfo(kept[i].v)]

\* Mutant of ExprLineKept: the line tested without trimming it.
ExprLineKeptUntrimmed(line) == IsStr(line) /\ line.v # <<>>

\* isinstance(line, str) and line.strip()
ExprLineKept(line) == IsStr(line) /\ Strip(line.v) # <<>>

\* The normalised expression text of a measure.
MeasureExpr(measure) ==
  LET expr_lines == GetOr(measure, "expression", L(<<>>))
  IN IF IsList(expr_lines)
     THEN LET kept == SelectSeq(expr_lines.v, ExprLineKept)
          IN Join(<<"\n">>, [i \in 1..Len(kept) |-> kept[i].v])
     ELSE IF IsStr(expr_lines) THEN Strip(expr_lines.v) ELSE <<>>

MeasureInfo(measure, table_name) ==
  [name |-> Get(measure, "name"),
   expression |-> S(MeasureExpr(measure)),
   table |-> table_name]

\* Mutant of Measures: the `table` field read from the measure itself.
MeasuresOwnTable(table) ==
  LET ms == ListOf(table, "measures").v
  IN [i \in 1..Len(ms) |-> MeasureInfo(ms[i].v, Get(ms[i].v, "table"))]

\* table_info["measures"] after the measure loop
Measures(table) ==
  LET ms == ListOf(table, "measures").v
  IN [i \in 1..Len(ms) |-> MeasureInfo(ms[i].v, Get(table, "name"))]

\* The first index >= i of s holding a double quote, or 0.
RECURSIVE NextQuote(_, _)
NextQuote(s, i) ==
  IF i > Len(s) THEN 0 ELSE IF s[i] = Quote THEN i ELSE NextQuote(s, i + 1)

\* re.search(r'File\.Contents\("([^"]+)"\)', s) tried from position i on:
\* group(1) of the leftmost match, or <<>> when nothing matches.
RECURSIVE FileContentsFrom(_, _)
FileContentsFrom(s, i) ==
  LET p == FindFrom(s, Str_FileContentsOpen, i)
      j == p + Len(Str_FileContentsOpen)
      k == NextQuote(s, j)
  IN IF p = 0 THEN <<>>
     ELSE IF k > j /\ k + 1 <= Len(s) /\ s[k + 1] = ")" THEN SubSeq(s, j, k - 1)
     ELSE FileContentsFrom(s, p + 1)

FileContentsPath(s) == FileContentsFrom(s, 1)

\* partition.get("source") or {}
PartitionSource(partition) == Or(Get(partition, "source"), D(EmptyDict))

IsMSource(source) == Get(source, "type") = S(Str_m)

\* Whether one pass of the partition loop body raises.
PartitionRaises(partition) ==
  \/ ~IsDict(partition)
  \/ ~IsDict(PartitionSource(partition.v))
  \/ LET source == PartitionSource(partition.v).v
         expr == GetOr(source, "expression", L(<<>>))
     IN /\ IsMSource(source)
        /\ IsList(expr)
        /\ \E i \in 1..Len(expr.v) : ~IsStr(expr.v[i])

\* m_code of a partition whose source type is "m"
MCode(source) ==
  LET expr == GetOr(source, "expression", L(<<>>))
  IN IF IsList(expr) THEN Join(<<" ">>, [i \in 1..Len(expr.v) |-> expr.v[i].v])
     ELSE IF IsStr(expr) THEN expr.v ELSE <<>>

\* Mutant of PartitionPath: the source type test dropped.
PartitionPathAnyType(partition) == FileContentsPath(MCode(PartitionSource(partition).v))

\* The path matched in a partition, or <<>>: only "m" sources are searched.
PartitionPath(partition) ==
  LET source == PartitionSource(partition).v
  IN IF IsMSource(source) THEN FileContentsPath(MCode(source)) ELSE <<>>

\* Mutant of DataSourceAfter: the `is None` test dropped, the last match wins.
DataSourceLastWins(data_source, partition) ==
  IF PartitionPath(partition) # <<>>
  THEN D([type |-> S(Str_File), path |-> S(PartitionPath(partition))])
  ELSE data_source

\* grading_info["data_source"] after one pass of the partition loop body
DataSourceAfter(data_source, partition) ==
  IF PartitionPath(partition) # <<>> /\ data_source = None
  THEN D([type |-> S(Str_File), path |-> S(PartitionPath(partition))])
  ELSE data_source

\* rel.get("toTable") or ""
ToTable(rel) == Or(Get(rel, "toTable"), S(<<>>))

\* Whether one pass of the relationship loop body raises.
RelRaises(rel) == ~IsDict(rel) \/ ToTable(rel.v).t \in {"num", "bool"}

\* Mutant of RelSkipped: a prefix test (startswith) in place of the substring test.
RelSkippedPrefix(rel) == IsStr(ToTable(rel)) /\ StartsAt(ToTable(rel).v, Str_LocalDateTable, 1)

\* "LocalDateTable" in to_table
RelSkipped(rel) ==
  CASE ToTable(rel).t = "str" -> Contains(ToTable(rel).v, Str_LocalDateTable)
    [] ToTable(rel).t = "list" ->
         \E i \in 1..Len(ToTable(rel).v) : ToTable(rel).v[i] = S(Str_LocalDateTable)

RelInfo(rel) ==
  [from |-> S(Fmt(Get(rel, "fromTable")) \o <<"[">> \o Fmt(Get(rel, "fromColumn")) \o <<"]">>),
   to |-> S(Fmt(Get(rel, "toTable")) \o <<"[">> \o Fmt(Get(rel, "toColumn")) \o <<"]">>),
   type |-> Or(Get(rel, "joinOnDateBehavior"), S(Str_standard))]

\* hierarchy.get("annotations", []) or []
Annotations(hierarchy) == ListOf(hierarchy, "annotations")

IsTemplateAnnotation(a) == IsDict(a) /\ Get(a.v, "name") = S(Str_TemplateId)

\* Mutant of HierarchySkipped: the isinstance(a, dict) filter dropped, so that a
\* bare "TemplateId" entry excludes the hierarchy too.
HierarchySkippedAnyEntry(hierarchy) ==
  \E i \in 1..Len(Items(Annotations(hierarchy))) :
     \/ IsTemplateAnnotation(Items(Annotations(hierarchy))[i])
     \/ Items(Annotations(hierarchy))[i] = S(Str_TemplateId)

\* any((a.get("name") == "TemplateId") for a in annos if isinstance(a, dict))
HierarchySkipped(hierarchy) ==
  \E i \in 1..Len(Items(Annotations(hierarchy))) :
     IsTemplateAnnotation(Items(Annotations(hierarchy))[i])

\* Whether one pass of the hierarchy loop body raises.
HierarchyRaises(hierarchy) ==
  \/ ~IsDict(hierarchy)
  \/ ~Iterable(Annotations(hierarchy.v))
  \/ ~HierarchySkipped(hierarchy.v) /\ ~Iterable(ListOf(hierarchy.v, "levels"))

HierarchyInfo(hierarchy, table) ==
  LET lvls == SelectSeq(Items(ListOf(hierarchy, "levels")), IsDict)
  IN [name |-> Get(hierarchy, "name"),
      table |-> Get(table, "name"),
      levels |-> [i \in 1..Len(lvls) |-> Get(lvls[i].v, "name")]]

IsSheet1(t) == t.name = S(Str_Sheet1)

\* Mutant of MainTableIndex: the "Sheet1" preference dropped.
MainTableFirst(included) == IF included # <<>> THEN 1 ELSE 0

\* preferred or (grading_info["tables"][0] if grading_info["tables"] else None):
\* the index of the main table in the included tables, or 0.
MainTableIndex(included) ==
  IF \E i \in 1..Len(included) : IsSheet1(included[i])
  THEN CHOOSE i \in 1..Len(included) :
         IsSheet1(included[i]) /\ \A j \in 1..(i - 1) : ~IsSheet1(included[j])
  ELSE IF included # <<>> THEN 1 ELSE 0

\* Mutant of IsTimeIntelligence: the name test dropped.
IsTimeIntelligenceByExpression(m) ==
  IsStr(m.expression) /\ Contains(m.expression.v, Str_SAMEPERIODLASTYEAR)

IsTimeIntelligence(m) ==
  \/ IsStr(m.expression) /\ Contains(m.expression.v, Str_SAMEPERIODLASTYEAR)
  \/ IsStr(m.name) /\ Contains(m.name.v, Str_YoY)

RECURSIVE ColumnsUpTo(_, _)
ColumnsUpTo(included, n) ==
  IF n = 0 THEN 0 ELSE Len(included[n].columns) + ColumnsUpTo(included, n - 1)

\* Mutant of TotalColumns: the columns of every included table counted.
TotalColumnsAllTables(g) == ColumnsUpTo(g.tables, Len(g.tables))

\* len(main_table.get("columns", []))
TotalColumns(g) == Len(g.tables[MainTableIndex(g.tables)].columns)

\* grading_info["summary"] as computed once the lists are complete
Summary(g) ==
  IF MainTableIndex(g.tables) = 0 THEN EmptyDict
  ELSE [main_table |-> g.tables[MainTableIndex(g.tables)].name,
        total_columns |-> TotalColumns(g),
        total_measures |-> Len(g.measures),
        total_relationships |-> Len(g.relationships),
        total_hierarchies |-> Len(g.hierarchies),
        has_time_intelligence |->
          \E i \in 1..Len(g.measures) : IsTimeIntelligence(g.measures[i])]

\* ------------------------------------------------ generate_grading_report

Bullet == "U+2022"

Str_ModelLabel == <<"M", "o", "d", "e", "l", ":", " ">>
Str_CompatibilityLabel == <<"C", "o", "m", "p", "a", "t", "i", "b", "i", "l", "i", "t", "y", " ", "L", "e", "v", "e", "l", ":", " ">>
Str_DataSourceHeader == <<"D", "a", "t", "a", " ", "S", "o", "u", "r", "c", "e", ":">>
Str_TablesHeader == <<"T", "a", "b", "l", "e", "s", ":">>
Str_MeasuresHeader == <<"M", "e", "a", "s", "u", "r", "e", "s", " ", "(", "d", "e", "t", "a", "i", "l", "s", ")", ":">>
Str_RelationshipsHeader == <<"R", "e", "l", "a", "t", "i", "o", "n", "s", "h", "i", "p", "s", ":">>
Str_HierarchiesHeader == <<"H", "i", "e", "r", "a", "r", "c", "h", "i", "e", "s", ":">>
Str_SummaryHeader == <<"S", "u", "m", "m", "a", "r", "y", ":">>
Str_NoneMarker == <<" ", " ", "n", "o", "n", "e">>
Str_ColumnsLabel == <<" ", " ", " ", " ", "C", "o", "l", "u", "m", "n", "s", ":">>
Str_MeasuresLabel == <<" ", " ", " ", " ", "M", "e", "a", "s", "u", "r", "e", "s", ":">>
Str_MeasuresNone == <<" ", " ", " ", " ", "M", "e", "a", "s", "u", "r", "e", "s", ":", " ", "n", "o", "n", "e">>
Str_ItemIndent == <<" ", " ", "-", " ">>
Str_SubItemIndent == <<" ", " ", " ", " ", " ", " ", Bullet, " ">>
Str_ExprIndent == <<" ", " ", " ", " ", " ", " ">>

RECURSIVE Decimal(_)
\* str(n) for a natural number
Decimal(n) == IF n < 10 THEN <<Digits[n + 1]>> ELSE Decimal(n \div 10) \o <<Digits[(n % 10) + 1]>>

\* str(b) for a bool
BoolText(b) == IF b THEN Str_TrueText ELSE Str_FalseText

RECURSIVE Concat(_)
\* The concatenation of a sequence of sequences.
Concat(ss) == IF ss = <<>> THEN <<>> ELSE Head(ss) \o Concat(Tail(ss))

\* s.split("\n"): the pieces between consecutive newlines (at(k) is the
\* position of the k-th newline, 0 before the first and Len(s) + 1 past the last)
SplitLines(s) ==
  LET nl == {i \in 1..Len(s) : s[i] = "\n"}
      at(k) == IF k = 0 THEN 0
               ELSE IF k > Cardinality(nl) THEN Len(s) + 1
               ELSE CHOOSE i \in nl : Cardinality({j \in nl : j < i}) = k - 1
  IN [k \in 1..(Cardinality(nl) + 1) |-> SubSeq(s, at(k - 1) + 1, at(k) - 1)]

\* processor.py 221-223
HeaderLines(g) ==
  <<Str_ModelLabel \o Fmt(g.model_name),
    Str_CompatibilityLabel \o Fmt(g.compatibility_level),
    <<>>>>

\* processor.py 225-230
DataSourceLines(g) ==
  IF Truthy(g.data_source)
  THEN <<Str_DataSourceHeader,
         <<" ", " ", "T", "y", "p", "e", ":", " ">> \o Fmt(Get(g.data_source.v, "type")),
         <<" ", " ", "P", "a", "t", "h", ":", " ">> \o Fmt(Get(g.data_source.v, "path")),
         <<>>>>
  ELSE <<>>

\* processor.py 238-243
ColumnLine(col) ==
  Str_SubItemIndent \o Fmt(col.name) \o <<" ", "(", "t", "y", "p", "e", "=">> \o Fmt(col.data_type)
    \o <<",", " ", "s", "u", "m", "m", "a", "r", "i", "z", "e", "_", "b", "y", "=">> \o Fmt(col.summarize_by)
    \o <<",", " ", "c", "a", "l", "c", "u", "l", "a", "t", "e", "d", "=">> \o BoolText(col.is_calculated) \o <<")">>

\* processor.py 234-252: the lines of one table
TableLines(table) ==
  <<Str_ItemIndent \o Fmt(table.name), Str_ColumnsLabel>>
    \o [i \in 1..Len(table.columns) |-> ColumnLine(table.columns[i])]
    \o (IF table.measures # <<>>
        THEN <<Str_MeasuresLabel>>
               \o [i \in 1..Len(table.measures) |->
                     Str_SubItemIndent \o Fmt(table.measures[i].name)]
        ELSE <<Str_MeasuresNone>>)
    \o <<<<>>>>

\* processor.py 232-252
TablesSection(g) ==
  <<Str_TablesHeader>> \o Concat([i \in 1..Len(g.tables) |-> TableLines(g.tables[i])])

\* processor.py 256-260: the lines of one measure
MeasureLines(m) ==
  <<Str_ItemIndent \o Fmt(m.name) \o <<" ", "(", "t", "a", "b", "l", "e", ":", " ">> \o Fmt(m.table) \o <<")">>>>
    \o [i \in 1..Len(SplitLines(Or(m.expression, S(<<>>)).v)) |->
          Str_ExprIndent \o SplitLines(Or(m.expression, S(<<>>)).v)[i]]
    \o <<<<>>>>

\* processor.py 254-260
MeasuresSection(g) ==
  <<Str_MeasuresHeader>> \o Concat([i \in 1..Len(g.measures) |-> MeasureLines(g.measures[i])])

\* processor.py 265
RelationshipLine(r) ==
  Str_ItemIndent \o Fmt(r.from) \o <<" ", "-", ">", " ">> \o Fmt(r.to) \o <<" ", "(">> \o Fmt(r.type) \o <<")">>

\* Mutant of RelationshipsSection: the else branch of line 266 dropped.
RelationshipsSectionNoMarker(g) ==
  <<Str_RelationshipsHeader>>
    \o [i \in 1..Len(g.relationships) |-> RelationshipLine(g.relationships[i])]
    \o <<<<>>>>

\* processor.py 262-268
RelationshipsSection(g) ==
  <<Str_RelationshipsHeader>>
    \o (IF g.relationships # <<>>
        THEN [i \in 1..Len(g.relationships) |-> RelationshipLine(g.relationships[i])]
        ELSE <<Str_NoneMarker>>)
    \o <<<<>>>>

\* ', '.join(levels) raises TypeError unless every level is a string.
LevelsRaise(h) == \E i \in 1..Len(h.levels) : ~IsStr(h.levels[i])

\* processor.py 273-274
HierarchyLine(h) ==
  Str_ItemIndent \o Fmt(h.name) \o <<" ", "(", "t", "a", "b", "l", "e", ":", " ">> \o Fmt(h.table) \o <<")", " ", "l", "e", "v", "e", "l", "s", ":", " ">>
    \o Join(<<",", " ">>, [i \in 1..Len(h.levels) |-> h.levels[i].v])

\* processor.py 270-277
HierarchiesSection(g) ==
  <<Str_HierarchiesHeader>>
    \o (IF g.hierarchies # <<>>
        THEN [i \in 1..Len(g.hierarchies) |-> HierarchyLine(g.hierarchies[i])]
        ELSE <<Str_NoneMarker>>)
    \o <<<<>>>>

\* processor.py 279-281: the summary's items, in insertion order
SummarySection(g) ==
  <<Str_SummaryHeader>>
    \o (IF DOMAIN g.summary = {} THEN <<>>
        ELSE <<Str_ItemIndent \o <<"m", "a", "i", "n", "_", "t", "a", "b", "l", "e", ":", " ">> \o Fmt(g.summary.main_table),
               Str_ItemIndent \o <<"t", "o", "t", "a", "l", "_", "c", "o", "l", "u", "m", "n", "s", ":", " ">> \o Decimal(g.summary.total_columns),
               Str_ItemIndent \o <<"t", "o", "t", "a", "l", "_", "m", "e", "a", "s", "u", "r", "e", "s", ":", " ">> \o Decimal(g.summary.total_measures),
               Str_ItemIndent \o <<"t", "o", "t", "a", "l", "_", "r", "e", "l", "a", "t", "i", "o", "n", "s", "h", "i", "p", "s", ":", " ">> \o Decimal(g.summary.total_relationships),
               Str_ItemIndent \o <<"t", "o", "t", "a", "l", "_", "h", "i", "e", "r", "a", "r", "c", "h", "i", "e", "s", ":", " ">> \o Decimal(g.summary.total_hierarchies),
               Str_ItemIndent \o <<"h", "a", "s", "_", "t", "i", "m", "e", "_", "i", "n", "t", "e", "l", "l", "i", "g", "e", "n", "c", "e", ":", " ">>
                 \o BoolText(g.summary.has_time_intelligence)>>)

\* Mutant of ReportLines: the relationships written before the measure details.
ReportLinesRelationshipsFirst(g) ==
  HeaderLines(g) \o DataSourceLines(g) \o TablesSection(g) \o RelationshipsSection(g)
    \o MeasuresSection(g) \o HierarchiesSection(g) \o SummarySection(g)

\* processor.py 219-281: `lines` when the return statement is reached
ReportLines(g) ==
  HeaderLines(g) \o DataSourceLines(g) \o TablesSection(g) \o MeasuresSection(g)
    \o RelationshipsSection(g) \o HierarchiesSection(g) \o SummarySection(g)

\* generate_grading_report(g): the text returned, or the exception
GenerateGradingReport(g) ==
  IF \E i \in 1..Len(g.hierarchies) : LevelsRaise(g.hierarchies[i])
  THEN [status |-> "raised"]
  ELSE [status |-> "done", text |-> Join(<<"\n">>, ReportLines(g))]

\* ----------------------------------------- pbit_to_json: decode and parse

\* Text is a sequence of code points, bytes a sequence of numbers 0..255.
CpQuote == 34
CpSpace == 32
CpColon == 58
CpOpenBrace == 123
CpCloseBrace == 125
CpApostrophe == 39
CpBackslash == 92
CpBom == 65279

\* A decode result: the text, or the UnicodeDecodeError.
DecodeError == [ok |-> FALSE]
Decoded(text) == [ok |-> TRUE, text |-> text]

IsHighSurrogate(u) == 55296 <= u /\ u <= 56319
IsLowSurrogate(u) == 56320 <= u /\ u <= 57343

\* The 16-bit unit at bytes i, i+1 in the given byte order.
UnitAt(b, i, big) == IF big THEN 256 * b[i] + b[i + 1] ELSE b[i] + 256 * b[i + 1]

\* Mutant of OnDecodeError: errors="replace", U+FFFD written for what is skipped.
OnDecodeErrorReplace(strict, rest) ==
  IF strict \/ ~rest.ok THEN DecodeError ELSE Decoded(<<65533>> \o rest.text)

\* What the codec does with bytes it cannot decode: raise when strict, drop
\* them and go on when errors="ignore".
OnDecodeError(strict, rest) == IF strict THEN DecodeError ELSE rest

RECURSIVE DecodeFrom(_, _, _, _)
\* The UTF-16 decoding of b from byte i on.
DecodeFrom(b, i, big, strict) ==
  IF i > Len(b) THEN Decoded(<<>>)
  ELSE IF i = Len(b) THEN OnDecodeError(strict, Decoded(<<>>))
  ELSE IF IsHighSurrogate(UnitAt(b, i, big))
  THEN IF i + 3 > Len(b) THEN OnDecodeError(strict, Decoded(<<>>))
       ELSE IF IsLowSurrogate(UnitAt(b, i + 2, big))
       THEN LET rest == DecodeFrom(b, i + 4, big, strict)
            IN IF rest.ok
               THEN Decoded(<<65536 + (UnitAt(b, i, big) - 55296) * 1024
                                + (UnitAt(b, i + 2, big) - 56320)>> \o rest.text)
               ELSE DecodeError
       ELSE OnDecodeError(strict, DecodeFrom(b, i + 2, big, strict))
  ELSE IF IsLowSurrogate(UnitAt(b, i, big))
  THEN OnDecodeError(strict, DecodeFrom(b, i + 2, big, strict))
  ELSE LET rest == DecodeFrom(b, i + 2, big, strict)
       IN IF rest.ok THEN Decoded(<<UnitAt(b, i, big)>> \o rest.text) ELSE DecodeError

\* raw_bytes.decode("utf-16"): a byte-order mark selects the order and is
\* consumed; without one the order is little-endian.
DecodeUtf16(b) ==
  IF Len(b) >= 2 /\ b[1] = 255 /\ b[2] = 254 THEN DecodeFrom(b, 3, FALSE, TRUE)
  ELSE IF Len(b) >= 2 /\ b[1] = 254 /\ b[2] = 255 THEN DecodeFrom(b, 3, TRUE, TRUE)
  ELSE DecodeFrom(b, 1, FALSE, TRUE)

\* raw_bytes.decode("utf-16-le", errors="ignore")
DecodeUtf16LeIgnore(b) == DecodeFrom(b, 1, FALSE, FALSE)

\* processor.py 62-65
DecodeSchema(b) == IF DecodeUtf16(b).ok THEN DecodeUtf16(b) ELSE DecodeUtf16LeIgnore(b)

\* str.translate with the table of line 67: curly quotes to straight ones
Translate(text) ==
  [i \in 1..Len(text) |->
     CASE text[i] \in {8216, 8217} -> CpApostrophe
       [] text[i] \in {8220, 8221} -> CpQuote
       [] OTHER -> text[i]]

\* c.isspace()
IsSpace(c) ==
  \/ c \in {9, 10, 11, 12, 13, 28, 29, 30, 31, 32, 133, 160, 5760, 8232, 8233, 8239, 8287, 12288}
  \/ 8192 <= c /\ c <= 8202

RECURSIVE LStripText(_)
LStripText(text) ==
  IF text # <<>> /\ IsSpace(Head(text)) THEN LStripText(Tail(text)) ELSE text

RECURSIVE RStripText(_)
RStripText(text) ==
  IF text # <<>> /\ IsSpace(text[Len(text)])
  THEN RStripText(SubSeq(text, 1, Len(text) - 1)) ELSE text

\* processor.py 67
Normalize(text) == RStripText(LStripText(Translate(text)))

\* ---------------------------------------------------------- json.loads
\* The parse of line 69 for the documents the schema bytes below can decode
\* to: their code points allow a string, an object and blanks, and none of
\* the tokens "[", ",", "\", a digit or a literal.

\* The printable ASCII characters, from the blank (code point 32) on (the
\* grave accent is written by its code point).
Ascii ==
  <<" ", "!", "\"", "#", "$", "%", "&", "'", "(", ")", "*", "+", ",", "-", ".", "/", "0",
     "1", "2", "3", "4", "5", "6", "7", "8", "9", ":", ";", "<", "=", ">", "?", "@", "A", "B",
     "C", "D", "E", "F", "G", "H", "I", "J", "K", "L", "M", "N", "O", "P", "Q", "R", "S", "T",
     "U", "V", "W", "X", "Y", "Z", "[", "\\", "]", "^", "_", "U+0060", "a", "b", "c", "d", "e", "f",
     "g", "h", "i", "j", "k", "l", "m", "n", "o", "p", "q", "r", "s", "t", "u", "v", "w", "x",
     "y", "z", "{", "|", "}", "~">>

RECURSIVE Flatten(_)
\* "".join(cs)
Flatten(cs) == IF cs = <<>> THEN "" ELSE Head(cs) \o Flatten(Tail(cs))

\* The character of a code point, as the model writes characters.
CharOf(c) == IF 32 <= c /\ c <= 126 THEN Ascii[c - 31] ELSE Flatten(<<"U", "+">> \o Decimal(c))

\* A parse result: the value and the position after it, or the JSONDecodeError.
JsonError == [ok |-> FALSE]
Parsed(value, end) == [ok |-> TRUE, value |-> value, end |-> end]

RECURSIVE SkipBlanks(_, _)
\* WHITESPACE.match(s, i).end(): the position after the blanks from i on
SkipBlanks(text, i) ==
  IF i <= Len(text) /\ text[i] \in {CpSpace, 9, 10, 13} THEN SkipBlanks(text, i + 1) ELSE i

\* py_scanstring from the position after the opening quote: the characters up
\* to the closing quote; a control character or the end of the text is an error.
ScanString(text, i) ==
  LET stops == {j \in i..Len(text) : text[j] = CpQuote \/ text[j] = CpBackslash \/ text[j] < 32}
      stop == CHOOSE j \in stops : \A k \in stops : j <= k
  IN IF stops = {} THEN JsonError
     ELSE IF text[stop] # CpQuote THEN JsonError
     ELSE Parsed([k \in 1..(stop - i) |-> CharOf(text[i + k - 1])], stop + 1)

RECURSIVE ScanValue(_, _)
\* scan_once(s, i): a string, or an object of at most one member
ScanValue(text, i) ==
  IF i > Len(text) THEN JsonError
  ELSE IF text[i] = CpQuote
  THEN LET s == ScanString(text, i + 1)
       IN IF s.ok THEN Parsed(S(s.value), s.end) ELSE JsonError
  ELSE IF text[i] = CpOpenBrace
  THEN LET k == SkipBlanks(text, i + 1)
       IN IF k <= Len(text) /\ text[k] = CpCloseBrace THEN Parsed(D(EmptyDict), k + 1)
          ELSE IF k > Len(text) \/ text[k] # CpQuote THEN JsonError
          ELSE LET key == ScanString(text, k + 1)
                   c == IF key.ok THEN SkipBlanks(text, key.end) ELSE 0
                   val == IF key.ok /\ c <= Len(text) /\ text[c] = CpColon
                          THEN ScanValue(text, SkipBlanks(text, c + 1))
                          ELSE JsonError
                   e == IF val.ok THEN SkipBlanks(text, val.end) ELSE 0
               IN IF val.ok /\ e <= Len(text) /\ text[e] = CpCloseBrace
                  THEN Parsed(D([f \in {Flatten(key.value)} |-> val.value]), e + 1)
                  ELSE JsonError
  ELSE JsonError

\* Mutant of JsonLoads: a lenient parse, whatever follows the first value is
\* ignored and a text without a value gives the empty object.
JsonLoadsLenient(text) ==
  LET val == ScanValue(text, SkipBlanks(text, 1))
  IN IF val.ok THEN val ELSE Parsed(D(EmptyDict), 1)

\* json.loads(raw): a text that starts with U+FEFF is refused; otherwise one
\* value between blanks, with nothing after it
JsonLoads(text) ==
  IF text # <<>> /\ text[1] = CpBom THEN JsonError
  ELSE LET val == ScanValue(text, SkipBlanks(text, 1))
       IN IF val.ok /\ SkipBlanks(text, val.end) = Len(text) + 1 THEN val ELSE JsonError

\* ------------------------------------------------------------------- state

VARIABLES
  tree,          \* the parsed schema tree handed to the extractor
  model,         \* the argument of the call in progress
  pc,            \* position of the call: idle, tables, partitions, append,
                 \* rels, hier_tables, hierarchies, summary, done, raised
  grading_info,  \* the mapping under construction, then the value returned
  tables,        \* local: model_root.get("tables", [])
  rels,          \* local: model_root.get("relationships", [])
  ti,            \* index of the table the current table loop is at
  table_info,    \* local: the table_info of the table being processed
  pi,            \* index in the partition loop
  ri,            \* index in the relationship loop
  hi,            \* index in the hierarchy loop
  first,         \* the outcome of the first completed call on tree, or unset
  repeating,     \* whether the call in progress repeats a completed call on tree
  report,        \* generate_grading_report: the lines built, once it has run
  fs,            \* the temporary directories that exist, with their content
  inv,           \* the invocations of analyze_pbit: position and locals of each
  sub            \* the call of PowerBIMentor.evaluate_all: position and locals

vars == <<tree, model, pc, grading_info, tables, rels, ti, table_info, pi, ri, hi, first, repeating,
          report, fs, inv, sub>>

\* What extract_grading_info never touches: the report, the file system and
\* the callers' locals.
outside == <<report, fs, inv, sub>>

Unset == [status |-> "unset"]

\* What a finished call hands to its caller.
Outcome == IF pc = "done" THEN [status |-> "done", value |-> grading_info]
           ELSE [status |-> "raised"]

EmptyTableInfo == [name |-> None, columns |-> <<>>, measures |-> <<>>]

\* The table the current table loop is at.
CurrentTable == Items(tables)[ti].v

\* Mutant of Enter: the result mapping is one object kept between calls, whose
\* lists and data source are not emptied by a new call.
EnterKeepingResult(m) ==
  /\ model' = m
  /\ grading_info' = [grading_info EXCEPT
                        !.model_name = InitialGradingInfo(m).model_name,
                        !.compatibility_level = InitialGradingInfo(m).compatibility_level,
                        !.summary = EmptyDict]
  /\ tables' = GetOr(ModelRoot(m), "tables", L(<<>>))
  /\ rels' = GetOr(ModelRoot(m), "relationships", L(<<>>))
  /\ ti' = 1
  /\ pi' = 1
  /\ ri' = 1
  /\ hi' = 1
  /\ table_info' = EmptyTableInfo
  /\ pc' = "tables"

\* processor.py 98-112: resolve the root, build the empty result, read the lists
Enter(m) ==
  /\ model' = m
  /\ grading_info' = InitialGradingInfo(m)
  /\ tables' = GetOr(ModelRoot(m), "tables", L(<<>>))
  /\ rels' = GetOr(ModelRoot(m), "relationships", L(<<>>))
  /\ ti' = 1
  /\ pi' = 1
  /\ ri' = 1
  /\ hi' = 1
  /\ table_info' = EmptyTableInfo
  /\ pc' = "tables"

Call ==
  /\ UNCHANGED outside
  /\ pc = "idle"
  /\ Enter(tree)
  /\ UNCHANGED <<tree, first, repeating>>

\* An exception leaves extract_grading_info: nothing is returned.
Raise ==
  /\ pc' = "raised"
  /\ first' = IF first = Unset /\ model = tree THEN [status |-> "raised"] ELSE first
  /\ UNCHANGED <<tree, model, grading_info, tables, rels, ti, table_info, pi, ri, hi, repeating>>

\* processor.py 114-146: one pass of the first table loop up to the partitions
TableStep ==
  /\ UNCHANGED outside
  /\ pc = "tables"
  /\ IF ~Iterable(tables) THEN Raise
     ELSE IF ti > Len(Items(tables))
     THEN /\ pc' = "rels"
          /\ ri' = 1
          /\ UNCHANGED <<tree, model, grading_info, tables, rels, ti, table_info, pi, hi, first, repeating>>
     ELSE IF ~IsDict(Items(tables)[ti]) THEN Raise
     ELSE IF TableSkipped(CurrentTable)
     THEN /\ ti' = ti + 1
          /\ UNCHANGED <<tree, model, pc, grading_info, tables, rels, table_info, pi, ri, hi, first, repeating>>
     ELSE IF LoopRaises(CurrentTable, "columns") \/ LoopRaises(CurrentTable, "measures")
     THEN Raise
     ELSE /\ table_info' = [name |-> Get(CurrentTable, "name"),
                            columns |-> Columns(CurrentTable),
                            measures |-> Measures(CurrentTable)]
          /\ grading_info' =
               [grading_info EXCEPT !.measures = @ \o Measures(CurrentTable)]
          /\ pi' = 1
          /\ pc' = "partitions"
          /\ UNCHANGED <<tree, model, tables, rels, ti, ri, hi, first, repeating>>

\* processor.py 148-155: one pass of the partition loop
PartitionStep ==
  /\ UNCHANGED outside
  /\ pc = "partitions"
  /\ IF ~IsList(ListOf(CurrentTable, "partitions")) THEN Raise
     ELSE IF pi > Len(ListOf(CurrentTable, "partitions").v)
     THEN /\ pc' = "append"
          /\ UNCHANGED <<tree, model, grading_info, tables, rels, ti, table_info, pi, ri, hi, first, repeating>>
     ELSE IF PartitionRaises(ListOf(CurrentTable, "partitions").v[pi]) THEN Raise
     ELSE /\ grading_info' =
               [grading_info EXCEPT !.data_source =
                  DataSourceAfter(@, ListOf(CurrentTable, "partitions").v[pi].v)]
          /\ pi' = pi + 1
          /\ UNCHANGED <<tree, model, pc, tables, rels, ti, table_info, ri, hi, first, repeating>>

\* processor.py 157: grading_info["tables"].append(table_info)
TableAppend ==
  /\ UNCHANGED outside
  /\ pc = "append"
  /\ grading_info' = [grading_info EXCEPT !.tables = Append(@, table_info)]
  /\ ti' = ti + 1
  /\ pc' = "tables"
  /\ UNCHANGED <<tree, model, tables, rels, table_info, pi, ri, hi, first, repeating>>

\* processor.py 159-167: one pass of the relationship loop
RelStep ==
  /\ UNCHANGED outside
  /\ pc = "rels"
  /\ IF ~Iterable(rels) THEN Raise
     ELSE IF ri > Len(Items(rels))
     THEN /\ pc' = "hier_tables"
          /\ ti' = 1
          /\ UNCHANGED <<tree, model, grading_info, tables, rels, table_info, pi, ri, hi, first, repeating>>
     ELSE IF RelRaises(Items(rels)[ri]) THEN Raise
     ELSE /\ grading_info' =
               IF RelSkipped(Items(rels)[ri].v) THEN grading_info
               ELSE [grading_info EXCEPT
                       !.relationships = Append(@, RelInfo(Items(rels)[ri].v))]
          /\ ri' = ri + 1
          /\ UNCHANGED <<tree, model, pc, tables, rels, ti, table_info, pi, hi, first, repeating>>

\* processor.py 169-171: the second table loop, entering a table or skipping it
HierTableStep ==
  /\ UNCHANGED outside
  /\ pc = "hier_tables"
  /\ IF ti > Len(Items(tables))
     THEN /\ pc' = "summary"
          /\ UNCHANGED <<tree, model, grading_info, tables, rels, ti, table_info, pi, ri, hi, first, repeating>>
     ELSE IF Truthy(Get(CurrentTable, "isHidden"))
     THEN /\ ti' = ti + 1
          /\ UNCHANGED <<tree, model, pc, grading_info, tables, rels, table_info, pi, ri, hi, first, repeating>>
     ELSE /\ hi' = 1
          /\ pc' = "hierarchies"
          /\ UNCHANGED <<tree, model, grading_info, tables, rels, ti, table_info, pi, ri, first, repeating>>

\* processor.py 173-181: one pass of the hierarchy loop
HierarchyStep ==
  /\ UNCHANGED outside
  /\ pc = "hierarchies"
  /\ IF ~IsList(ListOf(CurrentTable, "hierarchies")) THEN Raise
     ELSE IF hi > Len(ListOf(CurrentTable, "hierarchies").v)
     THEN /\ ti' = ti + 1
          /\ pc' = "hier_tables"
          /\ UNCHANGED <<tree, model, grading_info, tables, rels, table_info, pi, ri, hi, first, repeating>>
     ELSE IF HierarchyRaises(ListOf(CurrentTable, "hierarchies").v[hi]) THEN Raise
     ELSE /\ grading_info' =
               IF HierarchySkipped(ListOf(CurrentTable, "hierarchies").v[hi].v)
               THEN grading_info
               ELSE [grading_info EXCEPT !.hierarchies =
                       Append(@, HierarchyInfo(ListOf(CurrentTable, "hierarchies").v[hi].v,
                                               CurrentTable))]
          /\ hi' = hi + 1
          /\ UNCHANGED <<tree, model, pc, tables, rels, ti, table_info, pi, ri, first, repeating>>

\* processor.py 183-200: the summary, and the return
Summarize ==
  /\ UNCHANGED outside
  /\ pc = "summary"
  /\ grading_info' = [grading_info EXCEPT !.summary = Summary(grading_info)]
  /\ pc' = "done"
  /\ first' = IF first = Unset /\ model = tree
              THEN [status |-> "done", value |-> grading_info']
              ELSE first
  /\ UNCHANGED <<tree, model, tables, rels, ti, table_info, pi, ri, hi, repeating>>

\* ------------------------------ extract_grading_info as one function
\* The call as analyze_pbit sees it: the value returned, or an exception.

ExtractRaised == [status |-> "raised"]
Going(g) == [ok |-> TRUE, g |-> g]
Stopped == [ok |-> FALSE]

RECURSIVE PartitionsOver(_, _, _)
\* processor.py 148-155: the partition loop of one table from item i on
PartitionsOver(ps, i, g) ==
  IF i > Len(ps) THEN Going(g)
  ELSE IF PartitionRaises(ps[i]) THEN Stopped
  ELSE PartitionsOver(ps, i + 1,
                      [g EXCEPT !.data_source = DataSourceAfter(@, ps[i].v)])

RECURSIVE TablesOver(_, _, _)
\* processor.py 114-157: the first table loop from item i on
TablesOver(ts, i, g) ==
  IF i > Len(ts) THEN Going(g)
  ELSE IF ~IsDict(ts[i]) THEN Stopped
  ELSE IF TableSkipped(ts[i].v) THEN TablesOver(ts, i + 1, g)
  ELSE IF LoopRaises(ts[i].v, "columns") \/ LoopRaises(ts[i].v, "measures") THEN Stopped
  ELSE IF ~IsList(ListOf(ts[i].v, "partitions")) THEN Stopped
  ELSE LET scanned == PartitionsOver(ListOf(ts[i].v, "partitions").v, 1,
                                     [g EXCEPT !.measures = @ \o Measures(ts[i].v)])
       IN IF ~scanned.ok THEN Stopped
          ELSE TablesOver(ts, i + 1,
                          [scanned.g EXCEPT !.tables =
                             Append(@, [name |-> Get(ts[i].v, "name"),
                                        columns |-> Columns(ts[i].v),
                                        measures |-> Measures(ts[i].v)])])

RECURSIVE RelsOver(_, _, _)
\* processor.py 159-167: the relationship loop from item i on
RelsOver(rs, i, g) ==
  IF i > Len(rs) THEN Going(g)
  ELSE IF RelRaises(rs[i]) THEN Stopped
  ELSE RelsOver(rs, i + 1,
                IF RelSkipped(rs[i].v) THEN g
                ELSE [g EXCEPT !.relationships = Append(@, RelInfo(rs[i].v))])

RECURSIVE HierarchiesOver(_, _, _, _)
\* processor.py 173-181: the hierarchy loop of one table from item i on
HierarchiesOver(hs, i, table, g) ==
  IF i > Len(hs) THEN Going(g)
  ELSE IF HierarchyRaises(hs[i]) THEN Stopped
  ELSE HierarchiesOver(hs, i + 1, table,
                       IF HierarchySkipped(hs[i].v) THEN g
                       ELSE [g EXCEPT !.hierarchies =
                               Append(@, HierarchyInfo(hs[i].v, table))])

RECURSIVE HierTablesOver(_, _, _)
\* processor.py 169-181: the second table loop from item i on
HierTablesOver(ts, i, g) ==
  IF i > Len(ts) THEN Going(g)
  ELSE IF Truthy(Get(ts[i].v, "isHidden")) THEN HierTablesOver(ts, i + 1, g)
  ELSE IF ~IsList(ListOf(ts[i].v, "hierarchies")) THEN Stopped
  ELSE LET scanned == HierarchiesOver(ListOf(ts[i].v, "hierarchies").v, 1, ts[i].v, g)
       IN IF ~scanned.ok THEN Stopped ELSE HierTablesOver(ts, i + 1, scanned.g)

\* extract_grading_info(model) for a parsed document of any JSON type: a
\* document that is no object has no .get
ExtractGradingInfo(doc) ==
  IF ~IsDict(doc) THEN ExtractRaised
  ELSE LET ts == GetOr(ModelRoot(doc.v), "tables", L(<<>>))
           rs == GetOr(ModelRoot(doc.v), "relationships", L(<<>>))
           a == IF Iterable(ts) THEN TablesOver(Items(ts), 1, InitialGradingInfo(doc.v))
                ELSE Stopped
           b == IF a.ok /\ Iterable(rs) THEN RelsOver(Items(rs), 1, a.g) ELSE Stopped
           c == IF b.ok THEN HierTablesOver(Items(ts), 1, b.g) ELSE Stopped
       IN IF c.ok THEN [status |-> "done", value |-> [c.g EXCEPT !.summary = Summary(c.g)]]
          ELSE ExtractRaised

\* processor.py 307: analyze_pbit hands the extractor's result to the renderer
Render ==
  /\ pc = "done"
  /\ report = Unset
  /\ report' = GenerateGradingReport(grading_info)
  /\ UNCHANGED <<tree, model, pc, grading_info, tables, rels, ti, table_info, pi, ri, hi,
                 first, repeating, fs, inv, sub>>

\* ------------------------------------------ pbit_to_json and analyze_pbit

\* Longest schema document, in 16-bit units after the byte-order mark.
MaxUnits == 3

\* The variables of the extractor's stepwise call.
extractorVars == <<tree, model, pc, grading_info, tables, rels, ti, table_info, pi, ri, hi,
                   first, repeating>>

\* The names tempfile can give a directory it creates.
DirNames == {"tmp_a", "tmp_b"}

\* The two file names the schema is looked up under, lines 54-56.
SchemaNames == {"DataModelSchema", "DataModelSchema.txt"}

\* 16-bit units as the bytes of a file: "{", "}", U+201D and a blank in
\* little-endian order, U+201D in big-endian order, a high and a low surrogate.
Units == {<<123, 0>>, <<125, 0>>, <<29, 32>>, <<32, 0>>, <<32, 29>>, <<61, 216>>, <<0, 222>>}

\* No mark, the little-endian and the big-endian byte-order mark.
Marks == {<<>>, <<255, 254>>, <<254, 255>>}

\* Nothing, or one stray byte after the last unit.
Strays == {<<>>, <<123>>}

\* The contents a schema file is given.
SchemaBytes ==
  {mark \o Concat(us) \o stray :
     mark \in Marks, us \in UNION {[1..n -> Units] : n \in 0..MaxUnits}, stray \in Strays}

\* What is found at pbit_path. kind: "missing" (nothing there), "not_pbit" (a
\* file with another suffix), "directory" (a directory named *.pbit),
\* "unreadable" (a file that cannot be opened), "not_zip" (a file that is no
\* archive), "damaged" (an archive whose extraction fails after `entries` were
\* written), "zip" (an archive holding `entries`).
Path(kind, entries) == [kind |-> kind, entries |-> entries]

Bytes_EmptyObject == <<255, 254, 123, 0, 125, 0>>
Bytes_EmptyString == <<29, 32, 29, 32>>
Bytes_OpenBrace == <<123, 0>>

\* Paths that are no readable archive.
RejectedPaths ==
  {Path(k, EmptyDict) : k \in {"missing", "not_pbit", "directory", "unreadable", "not_zip"}}
  \cup {Path("damaged", e) : e \in {EmptyDict, [n \in {"DataModelSchema"} |-> Bytes_EmptyObject]}}

\* Archives that differ in which of the two schema names they hold.
LocationPaths ==
  {Path("zip", e) :
     e \in UNION {[names -> {Bytes_EmptyObject, Bytes_EmptyString, Bytes_OpenBrace}] :
                    names \in SUBSET SchemaNames}}

\* Archives that differ in the bytes of the schema.
ContentPaths == {Path("zip", [n \in {"DataModelSchema"} |-> b]) : b \in SchemaBytes}

\* A directory that exists: whether file.zip was written, and the files under out/.
NewDir == [zip |-> FALSE, out |-> EmptyDict]

\* An invocation before its first statement. entry is the function called:
\* "analyze_pbit" of PowerBIMentor/utils/processor.py, or "pbit_to_json" of
\* src/processors/processor.py.
NewInvocation(entry, path) ==
  [entry |-> entry, path |-> path, pc |-> "start", tmp |-> "", schema |-> "",
   raw_bytes |-> <<>>, raw |-> <<>>, doc |-> None, info |-> Unset, report |-> Unset,
   error |-> "", carried |-> {}, stages |-> <<>>, created |-> {}]

\* Mutant of FreeNames: a name is taken whether or not a directory has it.
FreeNamesAny == DirNames

\* mkdtemp: a name no existing directory has
FreeNames == DirNames \ DOMAIN fs

\* An exception raised inside the with block: the block is left through the
\* cleanup of the directory with the exception pending. `carried` is the set of
\* path variables whose value the exception holds, in its message or as its
\* filename: "pbit_path", "p", "zip_path", "schema".
Unwind(p, error, carried) ==
  inv' = [inv EXCEPT ![p].pc = "unwinding", ![p].error = error, ![p].carried = carried]

\* An exception raised outside the with block reaches the caller.
Fail(p, error, carried) ==
  inv' = [inv EXCEPT ![p].pc = "failed", ![p].error = error, ![p].carried = carried]

\* processor.py 31-41 (src/processors/processor.py 11-13): the path checks
Validate(p) ==
  /\ inv[p].pc = "start"
  /\ IF inv[p].path.kind = "missing"
     THEN IF inv[p].entry = "analyze_pbit"
          THEN Fail(p, "FileNotFoundError", {"pbit_path", "p"})
          ELSE Fail(p, "ValueError", {"pbit_path"})
     ELSE IF inv[p].path.kind \in {"not_pbit", "directory"}
     THEN Fail(p, "ValueError", {"pbit_path"})
     ELSE inv' = [inv EXCEPT ![p].pc = "checked"]
  /\ UNCHANGED <<extractorVars, report, fs, sub>>

\* processor.py 43: tempfile.TemporaryDirectory(prefix="pbit_") creates the directory
MakeWorkspace(p) ==
  /\ inv[p].pc = "checked"
  /\ \E name \in FreeNames :
       /\ fs' = [n \in DOMAIN fs \cup {name} |-> IF n = name THEN NewDir ELSE fs[n]]
       /\ inv' = [inv EXCEPT ![p].pc = "workspace", ![p].tmp = name, ![p].created = {name}]
  /\ UNCHANGED <<extractorVars, report, sub>>

\* processor.py 49: shutil.copyfile(p, zip_path)
CopyFile(p) ==
  /\ inv[p].pc = "workspace"
  /\ IF inv[p].tmp \notin DOMAIN fs
     THEN Unwind(p, "FileNotFoundError", {"zip_path"}) /\ UNCHANGED fs
     ELSE IF inv[p].path.kind = "unreadable"
     THEN Unwind(p, "PermissionError", {"p"}) /\ UNCHANGED fs
     ELSE /\ fs' = [fs EXCEPT ![inv[p].tmp].zip = TRUE]
          /\ inv' = [inv EXCEPT ![p].pc = "copied"]
  /\ UNCHANGED <<extractorVars, report, sub>>

\* processor.py 51-52: zipfile.ZipFile(zip_path) and z.extractall(out_dir)
Unzip(p) ==
  /\ inv[p].pc = "copied"
  /\ IF inv[p].tmp \notin DOMAIN fs \/ ~fs[inv[p].tmp].zip
     THEN Unwind(p, "FileNotFoundError", {"zip_path"}) /\ UNCHANGED fs
     ELSE IF inv[p].path.kind = "not_zip"
     THEN Unwind(p, "BadZipFile", {}) /\ UNCHANGED fs
     ELSE /\ fs' = [fs EXCEPT ![inv[p].tmp].out = inv[p].path.entries]
          /\ IF inv[p].path.kind = "damaged"
             THEN Unwind(p, "BadZipFile", {})
             ELSE inv' = [inv EXCEPT ![p].pc = "unzipped"]
  /\ UNCHANGED <<extractorVars, report, sub>>

\* Mutant of SchemaFor: the name with the suffix is tried first.
SchemaForTxtFirst(out) ==
  IF "DataModelSchema.txt" \in DOMAIN out THEN "DataModelSchema.txt"
  ELSE IF "DataModelSchema" \in DOMAIN out THEN "DataModelSchema"
  ELSE ""

\* processor.py 54-56: the file `schema` names, "" when neither exists
SchemaFor(out) ==
  IF "DataModelSchema" \in DOMAIN out THEN "DataModelSchema"
  ELSE IF "DataModelSchema.txt" \in DOMAIN out THEN "DataModelSchema.txt"
  ELSE ""

\* The files under out/ of a directory, none when the directory is gone.
OutOf(name) == IF name \in DOMAIN fs THEN fs[name].out ELSE EmptyDict

\* processor.py 54-58: choose the schema file or raise
Locate(p) ==
  /\ inv[p].pc = "unzipped"
  /\ IF SchemaFor(OutOf(inv[p].tmp)) = ""
     THEN Unwind(p, "ValueError", {})
     ELSE inv' = [inv EXCEPT ![p].pc = "located", ![p].schema = SchemaFor(OutOf(inv[p].tmp))]
  /\ UNCHANGED <<extractorVars, report, fs, sub>>

\* processor.py 60: raw_bytes = schema.read_bytes()
ReadBytes(p) ==
  /\ inv[p].pc = "located"
  /\ IF inv[p].schema \notin DOMAIN OutOf(inv[p].tmp)
     THEN Unwind(p, "FileNotFoundError", {"schema"})
     ELSE inv' = [inv EXCEPT ![p].pc = "read",
                             ![p].raw_bytes = OutOf(inv[p].tmp)[inv[p].schema]]
  /\ UNCHANGED <<extractorVars, report, fs, sub>>

\* processor.py 62-65: decode, with the second attempt
Decode(p) ==
  /\ inv[p].pc = "read"
  /\ IF DecodeSchema(inv[p].raw_bytes).ok
     THEN inv' = [inv EXCEPT ![p].pc = "decoded",
                             ![p].raw = DecodeSchema(inv[p].raw_bytes).text,
                             ![p].stages = Append(@, "decode")]
     ELSE inv' = [inv EXCEPT ![p].pc = "unwinding", ![p].error = "UnicodeDecodeError",
                             ![p].stages = Append(@, "decode")]
  /\ UNCHANGED <<extractorVars, report, fs, sub>>

\* processor.py 67: raw = raw.translate(...).strip()
TranslateStrip(p) ==
  /\ inv[p].pc = "decoded"
  /\ inv' = [inv EXCEPT ![p].pc = "normalized", ![p].raw = Normalize(@)]
  /\ UNCHANGED <<extractorVars, report, fs, sub>>

\* processor.py 69: json.loads(raw), the value the with block is left with
Parse(p) ==
  /\ inv[p].pc = "normalized"
  /\ IF JsonLoads(inv[p].raw).ok
     THEN inv' = [inv EXCEPT ![p].pc = "parsed", ![p].doc = JsonLoads(inv[p].raw).value,
                             ![p].stages = Append(@, "parse")]
     ELSE inv' = [inv EXCEPT ![p].pc = "unwinding", ![p].error = "JSONDecodeError",
                             ![p].stages = Append(@, "parse")]
  /\ UNCHANGED <<extractorVars, report, fs, sub>>

\* Mutant of Removed: the directory is removed only when the block ends normally.
RemovedOnSuccess(p) ==
  IF inv[p].pc = "parsed" THEN [n \in DOMAIN fs \ {inv[p].tmp} |-> fs[n]] ELSE fs

\* TemporaryDirectory.cleanup(): the directory and all it holds are removed
Removed(p) == [n \in DOMAIN fs \ {inv[p].tmp} |-> fs[n]]

\* processor.py 43: the with block is left, normally or with an exception
Cleanup(p) ==
  /\ inv[p].pc \in {"parsed", "unwinding"}
  /\ fs' = Removed(p)
  /\ inv' = [inv EXCEPT ![p].pc = IF inv[p].pc = "parsed" THEN "loaded" ELSE "failed"]
  /\ UNCHANGED <<extractorVars, report, sub>>

\* processor.py 306: grading_info = extract_grading_info(schema)
Extract(p) ==
  /\ inv[p].pc = "loaded"
  /\ inv[p].entry = "analyze_pbit"
  /\ LET info == ExtractGradingInfo(inv[p].doc)
     IN inv' = [inv EXCEPT ![p].pc = IF info.status = "done" THEN "extracted" ELSE "failed",
                           ![p].error = IF info.status = "done" THEN "" ELSE "AttributeError",
                           ![p].info = info,
                           ![p].stages = Append(@, "extract")]
  /\ UNCHANGED <<extractorVars, report, fs, sub>>

\* processor.py 307-308: report = generate_grading_report(grading_info); return report
Report(p) ==
  /\ inv[p].pc = "extracted"
  /\ LET text == GenerateGradingReport(inv[p].info.value)
     IN inv' = [inv EXCEPT ![p].pc = IF text.status = "done" THEN "returned" ELSE "failed",
                           ![p].error = IF text.status = "done" THEN "" ELSE "TypeError",
                           ![p].report = text,
                           ![p].stages = Append(@, "render")]
  /\ UNCHANGED <<extractorVars, report, fs, sub>>

\* ------------------------------------------------------------ input trees

\* Name of the i-th table, column, measure, hierarchy or path of a tree.
TableName(i) == <<"T", Digits[i + 1]>>
MeasureName(i) == <<"M", Digits[i + 1]>>
HierarchyName(i) == <<"H", Digits[i + 1]>>
ColumnName(i) == <<"c", Digits[i + 1]>>

\* An "m" partition whose expression lines reference the file `path`.
FilePartition(path) ==
  D([name |-> S(<<"p">>),
     source |-> D([type |-> S(Str_m),
                   expression |-> L(<<S(<<"l", "e", "t">>),
                                      S(<<" ", " ", "S", "o", "u", "r", "c", "e", " ", "=", " ", "E", "x", "c", "e", "l", ".", "W", "o", "r", "k", "b", "o", "o", "k", "(">> \o Str_FileContentsOpen
                                          \o path \o <<"\"", ")", ",", " ", "n", "u", "l", "l", ",", " ", "t", "r", "u", "e", ")">>),
                                      S(<<"i", "n", " ", "S", "o", "u", "r", "c", "e">>)>>)])])

VisibleColumn(i) ==
  D([name |-> S(ColumnName(i)), dataType |-> S(<<"i", "n", "t", "6", "4">>),
     summarizeBy |-> S(<<"s", "u", "m">>), type |-> S(Str_calculated)])

HiddenColumn == D([name |-> S(<<"R", "o", "w", "N", "u", "m", "b", "e", "r">>), isHidden |-> B(TRUE), type |-> S(<<"r", "o", "w", "N", "u", "m", "b", "e", "r">>)])

Level(name) == D([name |-> S(name), ordinal |-> N(0)])

PlainHierarchy(name) ==
  D([name |-> S(name), levels |-> L(<<Level(<<"Y", "e", "a", "r">>), Level(<<"M", "o", "n", "t", "h">>)>>)])

PlainMeasure(name) == D([name |-> S(name), expression |-> S(<<"S", "U", "M", "(", "T", "[", "c", "]", ")">>)])

PlainRel ==
  D([name |-> S(<<"r">>), fromTable |-> S(<<"F", "a", "c", "t">>), fromColumn |-> S(<<"k">>),
     toTable |-> S(<<"D", "i", "m">>), toColumn |-> S(<<"k">>)])

\* The tree of a .pbit schema: the lists nested under "model".
Document(tableList, relList) ==
  [name |-> S(<<"D", "e", "m", "o">>), compatibilityLevel |-> N(7),
   model |-> D(Obj([culture |-> S(<<"e", "n">>), tables |-> tableList, relationships |-> relList]))]

\* --- trees that vary the tables: names, hidden/private flags, partitions

\* (A table carrying both flags is among FlagTrees.)
TableShapes ==
  {s \in [sheet : BOOLEAN, hidden : {Absent, B(TRUE)}, private : {Absent, B(TRUE)},
          file : BOOLEAN] : s.hidden = Absent \/ s.private = Absent}

\* Table i of a tree: i visible columns and one hidden one, measure Mi,
\* hierarchy Hi, and (shape.file) a partition reading file "Ti".
ShapedTable(i, shape) ==
  D(Obj([name |-> IF shape.sheet THEN S(Str_Sheet1) ELSE S(TableName(i)),
         isHidden |-> shape.hidden,
         isPrivate |-> shape.private,
         columns |-> L(<<HiddenColumn>> \o [j \in 1..i |-> VisibleColumn(j)]),
         measures |-> L(<<PlainMeasure(MeasureName(i))>>),
         partitions |-> IF shape.file THEN L(<<FilePartition(TableName(i))>>) ELSE Absent,
         hierarchies |-> L(<<PlainHierarchy(HierarchyName(i))>>)]))

TableTrees ==
  {Document(L([i \in 1..Len(f) |-> ShapedTable(i, f[i])]), L(<<PlainRel>>)) :
     f \in UNION {[1..n -> TableShapes] : n \in 0..MaxTables}}

\* --- trees that vary the values of the isHidden / isPrivate flags

FlagValues ==
  {Absent, None, B(FALSE), B(TRUE), N(0), N(1), S(<<>>), S(<<"f", "a", "l", "s", "e">>), L(<<>>)}

BasicShape == [sheet |-> FALSE, hidden |-> Absent, private |-> Absent, file |-> TRUE]

FlagTrees ==
  {Document(L(<<ShapedTable(1, [BasicShape EXCEPT !.hidden = h, !.private = p]),
               ShapedTable(2, BasicShape)>>),
            L(<<PlainRel>>)) : h \in FlagValues, p \in FlagValues}

\* --- trees that vary the relationships

RelTo(to, from) ==
  D(Obj([fromTable |-> from, fromColumn |-> S(<<"k">>), toTable |-> to, toColumn |-> S(<<"D", "a", "t", "e">>)]))

RelChoices ==
  {RelTo(to, S(<<"F", "a", "c", "t">>)) :
     to \in {Absent, S(<<>>), S(<<"D", "i", "m">>),
             S(Str_LocalDateTable),
             S(Str_LocalDateTable \o <<"_", "6", "a", "1", "f">>),
             S(<<"M", "y">> \o Str_LocalDateTable),
             S(<<"D", "i", "m", "_">> \o Str_LocalDateTable \o <<"_", "v", "2">>),
             S(<<"l", "o", "c", "a", "l", "d", "a", "t", "e", "t", "a", "b", "l", "e", "_", "6", "a", "1", "f">>),
             S(<<"L", "o", "c", "a", "l", "D", "a", "t", "e", "T", "a", "b", "l">>),
             S(<<"L", "o", "c", "a", "l", "D", "a", "t", "e", " ", "T", "a", "b", "l", "e">>)}}
  \cup {RelTo(S(<<"D", "i", "m">>), S(Str_LocalDateTable \o <<"_", "6", "a", "1", "f">>)),
        D(Obj([toTable |-> S(<<"D", "i", "m">>), joinOnDateBehavior |-> S(<<"d", "a", "t", "e", "P", "a", "r", "t", "O", "n", "l", "y">>)]))}

RelTrees ==
  {Document(L(<<ShapedTable(1, BasicShape)>>), L(rs)) :
     rs \in UNION {[1..n -> RelChoices] : n \in 0..MaxItems}}

\* Relationships whose toTable is no string, or that are no mapping.
BrokenRels ==
  {RelTo(None, S(<<"F", "a", "c", "t">>)), RelTo(N(0), S(<<"F", "a", "c", "t">>)),
   RelTo(N(1), S(<<"F", "a", "c", "t">>)), S(<<"r", "e", "l">>)}

\* One of them alone, before, and after a well-formed relationship.
BrokenRelTrees ==
  {Document(L(<<ShapedTable(1, BasicShape)>>), L(rs)) :
     rs \in UNION {{<<b>>, <<b, r>>, <<r, b>>} :
                     b \in BrokenRels,
                     r \in {PlainRel, RelTo(S(Str_LocalDateTable), S(<<"F", "a", "c", "t">>))}}}

\* --- trees that vary the hierarchies and their annotations

Annotation(name) == D([name |-> S(name), value |-> S(<<"x">>)])

HierarchyWith(name, annos, lvls) ==
  D(Obj([name |-> S(name), annotations |-> annos, levels |-> lvls]))

SomeLevels == L(<<Level(<<"Y", "e", "a", "r">>), S(<<"M", "o", "n", "t", "h">>), D([ordinal |-> N(1)])>>)

HierarchyChoices ==
  {HierarchyWith(<<"h", "_", "a", "b", "s", "e", "n", "t">>, Absent, SomeLevels),
   HierarchyWith(<<"h", "_", "n", "u", "l", "l">>, None, None),
   HierarchyWith(<<"h", "_", "e", "m", "p", "t", "y">>, L(<<>>), L(<<>>)),
   HierarchyWith(<<"h", "_", "t", "e", "m", "p", "l", "a", "t", "e">>, L(<<Annotation(Str_TemplateId)>>), SomeLevels),
   HierarchyWith(<<"h", "_", "s", "e", "c", "o", "n", "d">>, L(<<Annotation(<<"F", "o", "r", "m", "a", "t">>), Annotation(Str_TemplateId)>>), N(1)),
   HierarchyWith(<<"h", "_", "o", "t", "h", "e", "r">>, L(<<Annotation(<<"F", "o", "r", "m", "a", "t">>)>>), Absent),
   HierarchyWith(<<"h", "_", "l", "o", "w", "e", "r">>, L(<<Annotation(<<"t", "e", "m", "p", "l", "a", "t", "e", "i", "d">>)>>), SomeLevels),
   HierarchyWith(<<"h", "_", "n", "o", "n", "m", "a", "p", "p", "i", "n", "g">>, L(<<S(Str_TemplateId), None>>), SomeLevels),
   HierarchyWith(<<"h", "_", "t", "e", "x", "t">>, S(Str_TemplateId), S(<<"Y", "e", "a", "r">>)),
   HierarchyWith(<<"h", "_", "n", "o", "n", "a", "m", "e">>, L(<<D([value |-> S(Str_TemplateId)])>>), SomeLevels)}

\* Hierarchies whose levels or annotations are a number, or that are no mapping.
BrokenHierarchies ==
  {HierarchyWith(<<"h", "_", "b", "a", "d", "l", "e", "v", "e", "l", "s">>, Absent, N(1)),
   HierarchyWith(<<"h", "_", "b", "a", "d", "a", "n", "n", "o", "s">>, N(1), SomeLevels),
   S(<<"h", "i", "e", "r", "a", "r", "c", "h", "y">>)}

TableFlags == {[hidden |-> Absent, private |-> Absent],
               [hidden |-> B(TRUE), private |-> Absent],
               [hidden |-> Absent, private |-> B(TRUE)]}

HierarchyTable(fl, hs) ==
  D(Obj([name |-> S(TableName(1)), isHidden |-> fl.hidden, isPrivate |-> fl.private,
         hierarchies |-> L(hs)]))

HierarchyTrees ==
  {Document(L(<<HierarchyTable(fl, hs), ShapedTable(2, BasicShape)>>), L(<<>>)) :
     fl \in {f \in TableFlags : f.hidden = Absent /\ f.private = Absent},
     hs \in UNION {[1..n -> HierarchyChoices] : n \in 0..MaxItems}}

\* Each of them before a plain hierarchy, in a hidden and in a private table.
FlaggedHierarchyTrees ==
  {Document(L(<<HierarchyTable(fl, <<h, PlainHierarchy(HierarchyName(1))>>),
               ShapedTable(2, BasicShape)>>), L(<<>>)) :
     fl \in {f \in TableFlags : f.hidden # Absent \/ f.private # Absent},
     h \in HierarchyChoices}

\* One of the others alone, before, and after a well-formed hierarchy.
BrokenHierarchyTrees ==
  {Document(L(<<HierarchyTable(fl, hs), ShapedTable(2, BasicShape)>>), L(<<>>)) :
     fl \in TableFlags,
     hs \in UNION {{<<b>>, <<b, PlainHierarchy(HierarchyName(1))>>,
                     <<PlainHierarchy(HierarchyName(1)), b>>} : b \in BrokenHierarchies}}

\* --- trees that vary the columns: the isHidden flag and the type

ColumnTypes ==
  {Absent, None, S(Str_calculated), S(<<"d", "a", "t", "a">>),
   S(<<"C", "a", "l", "c", "u", "l", "a", "t", "e", "d">>),
   S(Str_calculated \o <<"T", "a", "b", "l", "e", "C", "o", "l", "u", "m", "n">>)}

ColumnWith(i, flag, type) ==
  D(Obj([name |-> S(ColumnName(i)), dataType |-> S(<<"i", "n", "t", "6", "4">>),
         isHidden |-> flag, type |-> type]))

ColumnTrees ==
  {Document(L(<<D([name |-> S(TableName(1)), columns |-> L(<<ColumnWith(1, h, t), c>>)])>>),
            L(<<>>)) :
     h \in FlagValues, t \in ColumnTypes,
     c \in {VisibleColumn(2), ColumnWith(2, B(TRUE), S(Str_calculated)),
            ColumnWith(2, Absent, Absent)}}

\* --- trees that vary the measures

MeasureWith(name, expr) == D(Obj([name |-> name, expression |-> expr]))

MeasureChoices ==
  {MeasureWith(S(<<"S", "a", "l", "e", "s", " ", "Y", "o", "Y">>), S(<<>>)),
   MeasureWith(S(<<"S", "a", "l", "e", "s", " ", "Y", "o", "Y">>), Absent),
   MeasureWith(S(<<"s", "a", "l", "e", "s", " ", "y", "o", "y">>), S(<<" ", " ", "S", "U", "M", "(", "T", "[", "c", "]", ")", "\n">>)),
   MeasureWith(S(<<"Y", "O", "Y">>), None),
   MeasureWith(S(<<"T", "o", "t", "a", "l">>), L(<<S(<<"C", "A", "L", "C", "U", "L", "A", "T", "E", "(", "[", "S", "]", ",">>), S(<<" ", " ">>), N(1),
                                  S(<<" ", "S", "A", "M", "E", "P", "E", "R", "I", "O", "D", "L", "A", "S", "T", "Y", "E", "A", "R", "(", "D", "[", "d", "]", ")", ")">>)>>)),
   MeasureWith(S(<<"P", "r", "e", "v">>), S(<<" ", "S", "A", "M", "E", "P", "E", "R", "I", "O", "D", "L", "A", "S", "T", "Y", "E", "A", "R", "(", "D", "[", "d", "]", ")">>)),
   MeasureWith(S(<<"L", "o", "w", "e", "r">>), S(<<"s", "a", "m", "e", "p", "e", "r", "i", "o", "d", "l", "a", "s", "t", "y", "e", "a", "r", "(", "D", "[", "d", "]", ")">>)),
   MeasureWith(S(<<"S", "p", "l", "i", "t">>), L(<<S(<<"S", "A", "M", "E", "P", "E", "R", "I", "O", "D">>), S(<<"L", "A", "S", "T", "Y", "E", "A", "R", "(", "D", "[", "d", "]", ")">>)>>)),
   MeasureWith(Absent, N(1)),
   MeasureWith(N(1), L(<<>>)),
   MeasureWith(S(<<"T", "o", "t", "a", "l">>), S(<<"\t", "\n", " ">>)),
   None}

MeasureTrees ==
  {Document(L(<<D([name |-> S(TableName(1)), columns |-> L(<<VisibleColumn(1)>>),
                   measures |-> L(ms)])>>),
            L(<<>>)) :
     ms \in UNION {[1..n -> MeasureChoices] : n \in 0..MaxItems}}

\* --- trees that vary the partitions of a first table, before a second one

PartitionWith(type, expr) == D([source |-> D(Obj([type |-> type, expression |-> expr]))])

FileRef(path) == Str_FileContentsOpen \o path \o <<"\"", ")">>

PartitionChoices ==
  {FilePartition(<<"a", ".", "x", "l", "s", "x">>),
   PartitionWith(S(Str_m), S(<<"l", "e", "t", " ", "S", " ", "=", " ">> \o FileRef(<<"b", ".", "c", "s", "v">>) \o <<",", " ", "T", " ", "=", " ">> \o FileRef(<<"z">>))),
   PartitionWith(S(<<"c", "a", "l", "c", "u", "l", "a", "t", "e", "d">>), S(FileRef(<<"c">>))),
   PartitionWith(Absent, L(<<S(FileRef(<<"c">>))>>)),
   PartitionWith(S(Str_m), S(<<"S", "q", "l", ".", "D", "a", "t", "a", "b", "a", "s", "e", "(", "\"", "s", "r", "v", "\"", ",", " ", "\"", "d", "b", "\"", ")">>)),
   PartitionWith(S(Str_m), S(FileRef(<<>>) \o FileRef(<<"d">>))),
   PartitionWith(S(Str_m), L(<<S(<<"F", "i", "l", "e", ".", "C", "o", "n", "t", "e", "n", "t", "s", "(">>), S(<<"\"", "e", "\"", ")">>)>>)),
   PartitionWith(S(Str_m), L(<<S(<<"F", "i", "l", "e", ".", "C", "o", "n", "t", "e", "n", "t", "s", "(", "\"", "e">>), S(<<"f", "\"", ")">>)>>)),
   PartitionWith(S(Str_m), S(<<"f", "i", "l", "e", ".", "c", "o", "n", "t", "e", "n", "t", "s", "(", "\"", "g", "\"", ")">>)),
   PartitionWith(S(Str_m), S(<<"F", "i", "l", "e", ".", "C", "o", "n", "t", "e", "n", "t", "s", "(", "\"", "h", "\"", " ", ")">> \o FileRef(<<"i">>))),
   PartitionWith(S(Str_m), Absent),
   D([name |-> S(<<"p">>)])}

\* Partitions whose expression or source has another type, or that are null.
BrokenPartitions ==
  {PartitionWith(S(Str_m), N(1)),
   PartitionWith(S(Str_m), L(<<S(FileRef(<<"j">>)), None>>)),
   D([source |-> None]),
   D([source |-> S(<<"m">>)]),
   None}

PartitionTable(fl, ps) ==
  D(Obj([name |-> S(TableName(1)), isHidden |-> fl.hidden, isPrivate |-> fl.private,
         partitions |-> L(ps)]))

PartitionTrees ==
  {Document(L(<<PartitionTable(fl, ps), ShapedTable(2, BasicShape)>>), L(<<>>)) :
     fl \in {f \in TableFlags : f.hidden = Absent /\ f.private = Absent},
     ps \in UNION {[1..n -> PartitionChoices] : n \in 0..MaxItems}}

\* Each of them alone, in a hidden and in a private table.
FlaggedPartitionTrees ==
  {Document(L(<<PartitionTable(fl, <<p>>), ShapedTable(2, BasicShape)>>), L(<<>>)) :
     fl \in {f \in TableFlags : f.hidden # Absent \/ f.private # Absent},
     p \in PartitionChoices}

\* One of the others alone, before, and after a partition that reads a file.
BrokenPartitionTrees ==
  {Document(L(<<PartitionTable(fl, ps), ShapedTable(2, BasicShape)>>), L(<<>>)) :
     fl \in TableFlags,
     ps \in UNION {{<<b>>, <<b, FilePartition(<<"a", ".", "x", "l", "s", "x">>)>>,
                     <<FilePartition(<<"a", ".", "x", "l", "s", "x">>), b>>} : b \in BrokenPartitions}}

\* --- trees that vary the table names around "Sheet1"

NameValues == {Absent, S(TableName(1)), S(Str_Sheet1), S(<<"S", "h", "e", "e", "t", "1", "0">>), S(<<"s", "h", "e", "e", "t", "1">>), S(<<" ", "S", "h", "e", "e", "t", "1">>)}

NamedTable(i, name) ==
  D(Obj([name |-> name, columns |-> L([j \in 1..i |-> VisibleColumn(j)])]))

NameTrees ==
  {Document(L(<<NamedTable(1, a), NamedTable(2, b)>>), L(<<>>)) :
     a \in NameValues, b \in NameValues}

\* --- trees that vary the root: its name, what "model" holds, and lists at
\* the root next to those under "model"

RootNames == {Absent, None, S(<<>>), S(<<"O", "u", "t", "e", "r">>)}

NestedModels ==
  {Absent, None, S(<<"x">>), L(<<NamedTable(1, S(<<"L", "i", "s", "t", "e", "d">>))>>), D(EmptyDict)}
  \cup {D(Obj([name |-> nn,
               tables |-> L(<<NamedTable(1, S(<<"I", "n", "n", "e", "r">>))>>),
               relationships |-> L(<<RelTo(S(<<"I", "n", "n", "e", "r", "D", "i", "m">>), S(<<"I", "n", "n", "e", "r">>))>>)])) :
          nn \in {Absent, S(<<>>), S(<<"N", "e", "s", "t", "e", "d">>)}}

RootTrees ==
  {Obj([name |-> rn, model |-> m,
        tables |-> IF lists THEN L(<<NamedTable(2, S(<<"R", "o", "o", "t">>))>>) ELSE Absent,
        relationships |-> IF lists THEN L(<<RelTo(S(<<"R", "o", "o", "t", "D", "i", "m">>), S(<<"R", "o", "o", "t">>))>>) ELSE Absent]) :
     rn \in RootNames, m \in NestedModels, lists \in BOOLEAN}

\* --- trees with expected keys left out

Option(keep, value) == IF keep THEN value ELSE Absent

\* Which groups of keys a sparse tree keeps.
KeyMasks ==
  [ident : BOOLEAN, nested : BOOLEAN, tables : BOOLEAN, relationships : BOOLEAN,
   name : BOOLEAN, columns : BOOLEAN, measures : BOOLEAN, partitions : BOOLEAN,
   hierarchies : BOOLEAN, fields : BOOLEAN, inner : BOOLEAN]

SparseTable(k) ==
  D(Obj([name |-> Option(k.name, S(TableName(1))),
         columns |-> Option(k.columns,
           L(<<D(Obj([name |-> Option(k.fields, S(ColumnName(1))),
                      dataType |-> Option(k.fields, S(<<"s", "t", "r", "i", "n", "g">>)),
                      summarizeBy |-> Option(k.fields, S(<<"n", "o", "n", "e">>)),
                      type |-> Option(k.fields, S(Str_calculated))]))>>)),
         measures |-> Option(k.measures,
           L(<<D(Obj([name |-> Option(k.fields, S(<<"S", "a", "l", "e", "s", " ", "Y", "o", "Y">>)),
                      expression |-> Option(k.fields, L(<<S(<<"S", "U", "M", "(", "T", "[", "c", "]", ")">>)>>))]))>>)),
         partitions |-> Option(k.partitions,
           L(<<D(Obj([name |-> S(<<"p">>),
                      source |-> Option(k.inner, D([type |-> S(Str_m)]))])),
               D([source |-> D(Obj([type |-> Option(k.inner, S(Str_m)),
                                    expression |-> S(FileRef(<<"s", ".", "x", "l", "s", "x">>))]))])>>)),
         hierarchies |-> Option(k.hierarchies,
           L(<<D(Obj([name |-> Option(k.fields, S(HierarchyName(1))),
                      annotations |-> Option(k.inner, L(<<Annotation(<<"F", "o", "r", "m", "a", "t">>)>>)),
                      levels |-> Option(k.inner, L(<<Level(<<"Y", "e", "a", "r">>)>>))])),
               D(Obj([name |-> S(HierarchyName(2)),
                      annotations |-> L(<<D(Obj([name |-> Option(k.inner, S(<<"F", "o", "r", "m", "a", "t">>))]))>>),
                      levels |-> L(<<D(Obj([name |-> Option(k.inner, S(<<"Y", "e", "a", "r">>))]))>>)]))>>))]))

SparseRels(k) ==
  L(<<D(Obj([fromTable |-> Option(k.fields, S(<<"F", "a", "c", "t">>)),
             fromColumn |-> Option(k.fields, S(<<"k">>)),
             toTable |-> Option(k.fields, S(<<"D", "i", "m">>)),
             toColumn |-> Option(k.fields, S(<<"k">>)),
             joinOnDateBehavior |-> Option(k.inner, S(<<"d", "a", "t", "e", "P", "a", "r", "t", "O", "n", "l", "y">>))]))>>)

SparseTree(k) ==
  IF k.nested
  THEN Obj([name |-> Option(k.ident, S(<<"D", "e", "m", "o">>)),
            compatibilityLevel |-> Option(k.ident, N(7)),
            model |-> D(Obj([tables |-> Option(k.tables, L(<<SparseTable(k)>>)),
                             relationships |-> Option(k.relationships, SparseRels(k))]))])
  ELSE Obj([name |-> Option(k.ident, S(<<"D", "e", "m", "o">>)),
            compatibilityLevel |-> Option(k.ident, N(7)),
            model |-> Absent,
            tables |-> Option(k.tables, L(<<SparseTable(k)>>)),
            relationships |-> Option(k.relationships, SparseRels(k))])

SparseTrees == {SparseTree(k) : k \in KeyMasks}

\* --- trees whose containers hold null or another non-list value

NullTrees ==
  {Document(None, L(<<PlainRel>>)),
   Document(L(<<ShapedTable(1, BasicShape)>>), None),
   Document(L(<<ShapedTable(1, BasicShape), None>>), L(<<>>)),
   Document(S(<<>>), S(<<>>)),
   Document(N(1), L(<<>>)),
   Document(L(<<>>), B(FALSE)),
   Document(L(<<D([name |-> S(TableName(1)), columns |-> None, measures |-> None,
                   partitions |-> None, hierarchies |-> None])>>), L(<<>>)),
   Document(L(<<D([name |-> S(TableName(1)), columns |-> N(1)])>>), L(<<>>)),
   Document(L(<<D([name |-> S(TableName(1)), columns |-> L(<<None>>)])>>), L(<<>>)),
   Document(L(<<D([name |-> S(TableName(1)), measures |-> S(<<"x">>)])>>), L(<<>>)),
   Document(L(<<D([name |-> S(TableName(1)), partitions |-> N(1)])>>), L(<<>>)),
   Document(L(<<D([name |-> S(TableName(1)), hierarchies |-> B(TRUE)])>>), L(<<>>)),
   [model |-> None, tables |-> L(<<ShapedTable(1, BasicShape)>>)],
   [name |-> None, model |-> D([name |-> S(<<"I", "n", "n", "e", "r">>), compatibilityLevel |-> N(5)])]}

BlankGradingInfo == InitialGradingInfo(EmptyDict)

\* The state before the first call, apart from the tree that call is given.
Fresh ==
  /\ model = EmptyDict
  /\ pc = "idle"
  /\ grading_info = BlankGradingInfo
  /\ tables = L(<<>>)
  /\ rels = L(<<>>)
  /\ ti = 1
  /\ table_info = EmptyTableInfo
  /\ pi = 1
  /\ ri = 1
  /\ hi = 1
  /\ first = Unset
  /\ repeating = FALSE
  /\ report = Unset
  /\ fs = EmptyDict
  /\ inv = EmptyDict
  /\ sub = Unset

Init ==
  /\ \/ tree \in TableTrees
     \/ tree \in FlagTrees
     \/ tree \in RelTrees
     \/ tree \in HierarchyTrees
     \/ tree \in MeasureTrees
     \/ tree \in ColumnTrees
     \/ tree \in PartitionTrees
     \/ tree \in FlaggedHierarchyTrees
     \/ tree \in FlaggedPartitionTrees
     \/ tree \in NameTrees
     \/ tree \in RootTrees
     \/ tree \in SparseTrees
     \/ tree \in NullTrees
     \/ tree \in BrokenRelTrees
     \/ tree \in BrokenHierarchyTrees
     \/ tree \in BrokenPartitionTrees
  /\ Fresh

Next ==
  \/ Call
  \/ TableStep
  \/ PartitionStep
  \/ TableAppend
  \/ RelStep
  \/ HierTableStep
  \/ HierarchyStep
  \/ Summarize

Spec == Init /\ [][Next]_vars

\* --- repeated calls: after a call has returned or raised, the caller calls
\* again, on the same tree or on another one.

OtherTree ==
  Document(L(<<ShapedTable(1, [BasicShape EXCEPT !.sheet = TRUE]),
               ShapedTable(2, [BasicShape EXCEPT !.private = B(TRUE)])>>),
           L(<<PlainRel, RelTo(S(Str_LocalDateTable), S(Str_Sheet1))>>))

CallAgain ==
  /\ UNCHANGED outside
  /\ pc \in {"done", "raised"}
  /\ \E m \in {tree, OtherTree} :
       /\ Enter(m)
       /\ repeating' = (m = tree /\ first # Unset)
  /\ UNCHANGED <<tree, first>>

NextRepeat == Next \/ CallAgain

\* The trees the repeated calls start from: those varying the tables, the
\* flags, the names and the missing keys, and the malformed ones.
InitRepeat ==
  /\ \/ tree \in TableTrees
     \/ tree \in FlagTrees
     \/ tree \in NameTrees
     \/ tree \in SparseTrees
     \/ tree \in NullTrees
     \/ tree \in BrokenRelTrees
     \/ tree \in BrokenHierarchyTrees
     \/ tree \in BrokenPartitionTrees
  /\ Fresh

SpecRepeat == InitRepeat /\ [][NextRepeat]_vars

\* --- extraction followed by rendering, as analyze_pbit chains them

NextReport == Next \/ Render

SpecReport == Init /\ [][NextReport]_vars

\* One invocation of the facade on any of the paths.
\* The extractor's stepwise call is not under way.
Quiet ==
  /\ tree = EmptyDict
  /\ model = EmptyDict
  /\ pc = "idle"
  /\ grading_info = BlankGradingInfo
  /\ tables = L(<<>>)
  /\ rels = L(<<>>)
  /\ ti = 1
  /\ table_info = EmptyTableInfo
  /\ pi = 1
  /\ ri = 1
  /\ hi = 1
  /\ first = Unset
  /\ repeating = FALSE
  /\ report = Unset

InitFacade ==
  /\ Quiet
  /\ sub = Unset
  /\ fs = EmptyDict
  /\ \/ \E path \in ContentPaths : inv = [p \in {1} |-> NewInvocation("analyze_pbit", path)]
     \/ \E path \in RejectedPaths \cup LocationPaths, entry \in {"analyze_pbit", "pbit_to_json"} :
          inv = [p \in {1} |-> NewInvocation(entry, path)]

NextFacade ==
  \/ \E p \in DOMAIN inv : Validate(p)
  \/ \E p \in DOMAIN inv : MakeWorkspace(p)
  \/ \E p \in DOMAIN inv : CopyFile(p)
  \/ \E p \in DOMAIN inv : Unzip(p)
  \/ \E p \in DOMAIN inv : Locate(p)
  \/ \E p \in DOMAIN inv : ReadBytes(p)
  \/ \E p \in DOMAIN inv : Decode(p)
  \/ \E p \in DOMAIN inv : TranslateStrip(p)
  \/ \E p \in DOMAIN inv : Parse(p)
  \/ \E p \in DOMAIN inv : Cleanup(p)
  \/ \E p \in DOMAIN inv : Extract(p)
  \/ \E p \in DOMAIN inv : Report(p)

SpecFacade == InitFacade /\ [][NextFacade]_vars

\* The paths given to invocations that run at the same time: one of each way
\* an invocation can end.
ConcurrentPaths ==
  {Path("missing", EmptyDict), Path("not_zip", EmptyDict),
   Path("damaged", [n \in {"DataModelSchema"} |-> Bytes_EmptyObject]),
   Path("zip", EmptyDict),
   Path("zip", [n \in {"DataModelSchema"} |-> Bytes_EmptyObject]),
   Path("zip", [n \in {"DataModelSchema"} |-> Bytes_EmptyString]),
   Path("zip", [n \in SchemaNames |-> IF n = "DataModelSchema" THEN Bytes_OpenBrace
                                      ELSE Bytes_EmptyObject])}

\* Two invocations of analyze_pbit, on the same path or on different ones,
\* whose statements interleave in any order.
InitConcurrent ==
  /\ Quiet
  /\ sub = Unset
  /\ fs = EmptyDict
  /\ \E first_path \in ConcurrentPaths, second_path \in ConcurrentPaths :
       inv = [p \in {1, 2} |-> NewInvocation("analyze_pbit",
                                             IF p = 1 THEN first_path ELSE second_path)]

SpecConcurrent == InitConcurrent /\ [][NextFacade]_vars

\* ------------------------------ PowerBIMentor.evaluate_all, extract_zip_to_temp

\* The suffixes of the files a submission is made of, one file of each at most.
AnswerSuffixes == {".pbit", ".pdf", ".txt"}

\* What is found at answer_path. kind: "missing", "folder" (a directory holding
\* `files`) or "file" (of the given suffix). A ".zip" file is no archive at all
\* (archive "none": plain, zero-byte or truncated), an archive holding `files`
\* ("ok"), or an archive whose extraction stops after `files` were written: on
\* a member with a wrong checksum ("bad_crc", zipfile.BadZipFile) or on one
\* whose compressed stream cannot be read ("bad_stream", zlib.error).
Answer(kind, suffix, archive, files) ==
  [kind |-> kind, suffix |-> suffix, archive |-> archive, files |-> files]

ZipAnswers ==
  {Answer("file", ".zip", "none", {})}
  \cup {Answer("file", ".zip", a, f) : a \in {"ok", "bad_crc", "bad_stream"}, f \in SUBSET AnswerSuffixes}

Answers ==
  ZipAnswers
  \cup {Answer("missing", "", "none", {})}
  \cup {Answer("folder", "", "none", f) : f \in SUBSET AnswerSuffixes}
  \cup {Answer("file", x, "none", {}) : x \in AnswerSuffixes \cup {".docx"}}

\* questions: whether each kind of question is asked (its text is not None).
Questions == [dax : BOOLEAN, visual : BOOLEAN, write : BOOLEAN]

\* ------------------------------------------------ Gemini: the response text

\* A response text is a sequence of lexical tokens: the punctuation of JSON,
\* string literals (v: the characters), number literals (n: the number), the
\* words null and true, white space, and any other run of characters ("junk").
Tok(k) == [k |-> k]
TStr(v) == [k |-> "str", v |-> v]
TNum(n) == [k |-> "num", n |-> n]

Str_score == <<"s", "c", "o", "r", "e">>
Str_feedback == <<"f", "e", "e", "d", "b", "a", "c", "k">>
Str_ok == <<"o", "k">>

RECURSIVE SkipWs(_, _)
\* The position of the first token from i on that is no white space.
SkipWs(toks, i) ==
  IF i <= Len(toks) /\ toks[i].k = "ws" THEN SkipWs(toks, i + 1) ELSE i

RECURSIVE StripWs(_)
\* text.strip(): white space removed at both ends
StripWs(toks) ==
  IF toks = <<>> THEN toks
  ELSE IF toks[1].k = "ws" THEN StripWs(Tail(toks))
  ELSE IF toks[Len(toks)].k = "ws" THEN StripWs(SubSeq(toks, 1, Len(toks) - 1))
  ELSE toks

RECURSIVE ParseJson(_, _)
RECURSIVE ParseElements(_, _, _)
RECURSIVE ParseMembers(_, _, _)

\* The value that starts at token i, and the position after it.
ParseJson(toks, i) ==
  LET j == SkipWs(toks, i)
  IN IF j > Len(toks) THEN JsonError
     ELSE CASE toks[j].k = "str" -> Parsed(S(toks[j].v), j + 1)
            [] toks[j].k = "num" -> Parsed(N(toks[j].n), j + 1)
            [] toks[j].k = "null" -> Parsed(None, j + 1)
            [] toks[j].k = "true" -> Parsed(B(TRUE), j + 1)
            [] toks[j].k = "[" -> ParseElements(toks, j + 1, <<>>)
            [] toks[j].k = "{" -> ParseMembers(toks, j + 1, EmptyDict)
            [] OTHER -> JsonError

\* The rest of an array: after "[" (acc empty) or after a comma.
ParseElements(toks, i, acc) ==
  LET j == SkipWs(toks, i)
  IN IF acc = <<>> /\ j <= Len(toks) /\ toks[j].k = "]" THEN Parsed(L(<<>>), j + 1)
     ELSE LET item == ParseJson(toks, j)
              e == IF item.ok THEN SkipWs(toks, item.end) ELSE 0
          IN IF ~item.ok \/ e > Len(toks) THEN JsonError
             ELSE IF toks[e].k = "]" THEN Parsed(L(Append(acc, item.value)), e + 1)
             ELSE IF toks[e].k = "," THEN ParseElements(toks, e + 1, Append(acc, item.value))
             ELSE JsonError

\* The rest of an object: after "{" (acc empty) or after a comma.
ParseMembers(toks, i, acc) ==
  LET j == SkipWs(toks, i)
  IN IF DOMAIN acc = {} /\ j <= Len(toks) /\ toks[j].k = "}" THEN Parsed(D(acc), j + 1)
     ELSE IF j > Len(toks) \/ toks[j].k # "str" THEN JsonError
     ELSE LET key == Flatten(toks[j].v)
              c == SkipWs(toks, j + 1)
              item == IF c <= Len(toks) /\ toks[c].k = ":"
                      THEN ParseJson(toks, c + 1) ELSE JsonError
              e == IF item.ok THEN SkipWs(toks, item.end) ELSE 0
              more == [f \in DOMAIN acc \cup {key} |-> IF f = key THEN item.value ELSE acc[f]]
          IN IF ~item.ok \/ e > Len(toks) THEN JsonError
             ELSE IF toks[e].k = "}" THEN Parsed(D(more), e + 1)
             ELSE IF toks[e].k = "," THEN ParseMembers(toks, e + 1, more)
             ELSE JsonError

\* json.loads(text) on a response text: one value, with nothing after it
LoadsResponse(toks) ==
  LET val == ParseJson(toks, 1)
  IN IF val.ok /\ SkipWs(toks, val.end) = Len(toks) + 1 THEN val ELSE JsonError

\* Whether `key in result` raises TypeError: the value is no container.
InRaises(result) == result.t \in {"num", "null", "bool"}

\* key in result: a key of a mapping, an item of a list, a substring of a string
In(key, result) ==
  CASE result.t = "dict" -> Flatten(key) \in DOMAIN result.v
    [] result.t = "list" -> \E i \in 1..Len(result.v) : result.v[i] = S(key)
    [] result.t = "str" -> Contains(result.v, key)

\* A response of the remote service: its text, or no text at all.
Response(toks) == [none |-> FALSE, text |-> toks]
NoText == [none |-> TRUE, text |-> <<>>]

\* response.text or ""
TextOf(response) == IF response.none THEN <<>> ELSE response.text

Returns(value) == [status |-> "returned", value |-> value]
Raises(error) == [status |-> "raised", error |-> error]

\* gemini.py 69-80 and 125-136: what evaluate and evaluate_visual make of
\* response.text
StructuredResult(response) ==
  LET result == LoadsResponse(StripWs(TextOf(response)))
  IN IF ~result.ok THEN Raises("ValueError")
     ELSE IF InRaises(result.value) THEN Raises("TypeError")
     ELSE IF ~In(Str_score, result.value) \/ ~In(Str_feedback, result.value)
     THEN Raises("ValueError")
     ELSE Returns(result.value)

\* The response {"score": score, "feedback": feedback}
Scored(score, feedback) ==
  <<Tok("{"), TStr(Str_score), Tok(":"), score, Tok(","), Tok("ws"),
    TStr(Str_feedback), Tok(":"), Tok("ws"), feedback, Tok("}")>>

\* Scores the remote service gives.
ModelScores == {0, 70, 100}

\* Response texts that are a mapping with both fields.
ShapedResponses ==
  {Scored(TNum(n), TStr(Str_ok)) : n \in ModelScores}
  \cup {<<Tok("ws")>> \o Scored(TNum(70), TStr(Str_ok)) \o <<Tok("ws")>>,
        Scored(Tok("null"), TStr(Str_ok)),
        Scored(TStr(<<"7", "0">>), TNum(3))}

\* Response texts that are no JSON at all.
BrokenResponses ==
  {<<>>, <<Tok("junk")>>,
   <<Tok("junk"), Tok("ws")>> \o Scored(TNum(70), TStr(Str_ok)) \o <<Tok("ws"), Tok("junk")>>,
   SubSeq(Scored(TNum(70), TStr(Str_ok)), 1, 10),
   Scored(TNum(70), TStr(Str_ok)) \o <<Tok("junk")>>,
   <<Tok("{"), TStr(Str_score), Tok(":"), TNum(70), Tok(","), Tok("}")>>,
   <<Tok("["), TNum(70), Tok(","), Tok("]")>>}

\* Response texts that are JSON of another shape.
OtherResponses ==
  {<<TNum(70)>>, <<Tok("null")>>, <<Tok("true")>>,
   <<Tok("["), Tok("]")>>,
   <<Tok("["), TStr(Str_score), Tok(","), TStr(Str_feedback), Tok("]")>>,
   <<Tok("["), Tok("{"), TStr(Str_score), Tok(":"), TNum(70), Tok("}"), Tok("]")>>,
   <<TStr(Str_ok)>>,
   <<TStr(Str_score \o <<" ">> \o Str_feedback)>>,
   <<Tok("{"), Tok("}")>>,
   <<Tok("{"), TStr(Str_score), Tok(":"), TNum(70), Tok("}")>>,
   <<Tok("{"), TStr(Str_feedback), Tok(":"), TStr(Str_ok), Tok("}")>>}

Responses ==
  {NoText} \cup {Response(toks) : toks \in ShapedResponses \cup BrokenResponses \cup OtherResponses}

\* A call before its first statement. entry is the function called:
\* "evaluate_all" or, directly, "extract_zip_to_temp".
NewCall(entry, answer, questions) ==
  [entry |-> entry, answer |-> answer, questions |-> questions, pc |-> "start",
   temp_dir |-> "", working |-> "", results |-> [dax |-> Unset, visual |-> Unset, write |-> Unset],
   key |-> "", invoked |-> <<>>, response |-> NoText, value |-> Unset, summary |-> Unset,
   error |-> "", created |-> {}]

\* The call ends with an exception.
Raised(error) == sub' = [sub EXCEPT !.pc = "failed", !.error = error]

\* core.py 19-42: _prepare_answer_path up to the call of extract_zip_to_temp
PrepareAnswerPath ==
  /\ sub # Unset
  /\ sub.pc = "start"
  /\ sub.entry = "evaluate_all"
  /\ IF sub.answer.kind = "missing" THEN Raised("FileNotFoundError")
     ELSE IF sub.answer.kind = "file" /\ sub.answer.suffix = ".zip"
     THEN sub' = [sub EXCEPT !.pc = "zip"]
     ELSE IF sub.answer.kind = "folder" \/ sub.answer.suffix \in AnswerSuffixes
     THEN sub' = [sub EXCEPT !.pc = "dax", !.working = "answer"]
     ELSE Raised("ValueError")
  /\ UNCHANGED <<extractorVars, report, fs, inv>>

\* extractor.py 26-49: the checks made before anything is created
CheckZip ==
  /\ sub # Unset
  /\ sub.pc = IF sub.entry = "evaluate_all" THEN "zip" ELSE "start"
  /\ IF sub.answer.kind = "missing" THEN Raised("FileNotFoundError")
     ELSE IF sub.answer.kind # "file" THEN Raised("ValueError")
     ELSE IF sub.answer.suffix # ".zip" \/ sub.answer.archive = "none" THEN Raised("ValueError")
     ELSE sub' = [sub EXCEPT !.pc = "checked"]
  /\ UNCHANGED <<extractorVars, report, fs, inv>>

\* extractor.py 52: temp_dir = tempfile.mkdtemp(prefix="powerbi_submission_")
MakeTempDir ==
  /\ sub # Unset
  /\ sub.pc = "checked"
  /\ \E name \in FreeNames :
       /\ fs' = [n \in DOMAIN fs \cup {name} |-> IF n = name THEN NewDir ELSE fs[n]]
       /\ sub' = [sub EXCEPT !.pc = "made", !.temp_dir = name, !.created = {name}]
  /\ UNCHANGED <<extractorVars, report, inv>>

\* extractor.py 55-58: extractall writes members until it is done or one of
\* them fails; only zipfile.BadZipFile enters the except clause
ExtractAll ==
  /\ sub # Unset
  /\ sub.pc = "made"
  /\ fs' = [fs EXCEPT ![sub.temp_dir].out = [f \in sub.answer.files |-> <<>>]]
  /\ sub' = CASE sub.answer.archive = "ok" -> [sub EXCEPT !.pc = "extracted"]
              [] sub.answer.archive = "bad_crc" -> [sub EXCEPT !.pc = "bad_zip"]
              [] sub.answer.archive = "bad_stream" ->
                   [sub EXCEPT !.pc = "failed", !.error = "zlib.error"]
  /\ UNCHANGED <<extractorVars, report, inv>>

\* extractor.py 61: shutil.rmtree(temp_dir, ignore_errors=True)
DirsAfterFailure == [n \in DOMAIN fs \ {sub.temp_dir} |-> fs[n]]

\* extractor.py 58-65: the except clause removes the directory and raises
RemoveTempDir ==
  /\ sub # Unset
  /\ sub.pc = "bad_zip"
  /\ fs' = DirsAfterFailure
  /\ Raised("ValueError")
  /\ UNCHANGED <<extractorVars, report, inv>>

\* extractor.py 67, core.py 30 and 128: the directory is what is worked on
ReturnTempDir ==
  /\ sub # Unset
  /\ sub.pc = "extracted"
  /\ sub' = [sub EXCEPT !.pc = IF sub.entry = "evaluate_all" THEN "dax" ELSE "returned",
                        !.working = "temp_dir"]
  /\ UNCHANGED <<extractorVars, report, fs, inv>>

\* The suffixes of the files get_file_by_type sees in working_path (checker.py
\* 23-35): none when it is no directory.
FilesAt ==
  IF sub.working = "temp_dir"
  THEN IF sub.temp_dir \in DOMAIN fs THEN DOMAIN fs[sub.temp_dir].out ELSE {}
  ELSE IF sub.answer.kind = "folder" THEN sub.answer.files ELSE {}

\* core.py 50-53, 77-80, 104-107: working_path is, or holds, a file of the suffix
Found(suffix) ==
  \/ sub.working = "answer" /\ sub.answer.kind = "file" /\ sub.answer.suffix = suffix
  \/ suffix \in FilesAt

\* core.py 55-61, 82-88, 109-115: the result when no file of the kind is found
Str_Unable == <<"U", "n", "a", "b", "l", "e", " ", "t", "o", " ", "e", "v", "a", "l", "u", "a", "t", "e", " ", "s", "u", "b", "m", "i", "s", "s", "i", "o", "n", ".">>
Str_Resubmit == <<"P", "l", "e", "a", "s", "e", " ", "e", "n", "s", "u", "r", "e", " ", "y", "o", "u", "r", " ", "s", "u", "b", "m", "i", "s", "s", "i", "o", "n", " ", "i", "n", "c", "l", "u", "d", "e", "s", " ", "a", "l", "l", " ", "r", "e", "q", "u", "i", "r", "e", "d", " ", "c", "o", "m", "p", "o", "n", "e", "n", "t", "s", " ", "a", "n", "d", " ", "r", "e", "s", "u", "b", "m", "i", "t", ".">>

UnableReason ==
  [dax |-> <<"T", "h", "e", " ", "a", "s", "s", "i", "g", "n", "m", "e", "n", "t", " ", "i", "n", "c", "l", "u", "d", "e", "s", " ", "D", "A", "X", " ", "r", "e", "l", "a", "t", "e", "d", " ", "q", "u", "e", "s", "t", "i", "o", "n", "s", ",", " ", "b", "u", "t", " ", "n", "o", " ", "D", "A", "X", " ", "r", "e", "l", "a", "t", "e", "d", " ", "r", "e", "s", "p", "o", "n", "s", "e", "(", "p", "b", "i", "t", " ", "f", "i", "l", "e", ")", " ", "f", "i", "l", "e", " ", "w", "a", "s", " ", "f", "o", "u", "n", "d", ".", " ">>,
   visual |-> <<"T", "h", "e", " ", "a", "s", "s", "i", "g", "n", "m", "e", "n", "t", " ", "i", "n", "c", "l", "u", "d", "e", "s", " ", "v", "i", "s", "u", "a", "l", " ", "t", "y", "p", "e", " ", "q", "u", "e", "s", "t", "i", "o", "n", "s", ",", " ", "b", "u", "t", " ", "n", "o", " ", "v", "i", "s", "u", "a", "l", " ", "t", "y", "p", "e", " ", "r", "e", "s", "p", "o", "n", "s", "e", "(", "p", "d", "f", " ", "f", "i", "l", "e", ")", " ", "f", "i", "l", "e", " ", "w", "a", "s", " ", "f", "o", "u", "n", "d", ".", " ">>,
   write |-> <<"T", "h", "e", " ", "a", "s", "s", "i", "g", "n", "m", "e", "n", "t", " ", "i", "n", "c", "l", "u", "d", "e", "s", " ", "w", "r", "i", "t", "t", "e", "n", " ", "t", "y", "p", "e", " ", "q", "u", "e", "s", "t", "i", "o", "n", "s", ",", " ", "b", "u", "t", " ", "n", "o", " ", "w", "r", "i", "t", "t", "e", "n", " ", "t", "y", "p", "e", " ", "r", "e", "s", "p", "o", "n", "s", "e", "(", "t", "x", "t", " ", "f", "i", "l", "e", ")", " ", "f", "i", "l", "e", " ", "w", "a", "s", " ", "f", "o", "u", "n", "d", ".", " ">>]

\* Mutant of ZeroResult: no result at all when the file is not found.
ZeroResultNone(key) == None

ZeroResult(key) ==
  D([score |-> N(0),
     feedback |-> S(Str_Unable \o <<"\n", "\n">> \o UnableReason[key] \o Str_Resubmit)])

\* What fails before the model is called: analyze_pbit on the .pbit file
\* (core.py 65), read_text on the .txt file (core.py 117).
PrepareError == [dax |-> "BadZipFile", write |-> "UnicodeDecodeError"]

\* One of the three evaluations up to the call of the model (core.py 44-125):
\* None without a question, the score 0 without a file; else the answer is
\* prepared, which may fail, and the model's method is entered (`invoked`
\* lists the evaluations that have entered it).
Evaluate(key, suffix, next) ==
  IF ~sub.questions[key] THEN sub' = [sub EXCEPT !.results[key] = None, !.pc = next]
  ELSE IF ~Found(suffix) THEN sub' = [sub EXCEPT !.results[key] = ZeroResult(key), !.pc = next]
  ELSE \/ key \in DOMAIN PrepareError /\ Raised(PrepareError[key])
       \/ sub' = [sub EXCEPT !.key = key, !.invoked = Append(@, key),
                             !.pc = IF key = "visual" THEN "pdf" ELSE "request"]

\* core.py 131
EvaluateDax ==
  /\ sub # Unset
  /\ sub.pc = "dax"
  /\ Evaluate("dax", ".pbit", "visual")
  /\ UNCHANGED <<extractorVars, report, fs, inv>>

\* core.py 132
EvaluateVisual ==
  /\ sub # Unset
  /\ sub.pc = "visual"
  /\ Evaluate("visual", ".pdf", "write")
  /\ UNCHANGED <<extractorVars, report, fs, inv>>

\* core.py 133
EvaluateWrite ==
  /\ sub # Unset
  /\ sub.pc = "write"
  /\ Evaluate("write", ".txt", "summary")
  /\ UNCHANGED <<extractorVars, report, fs, inv>>

\* Whether pdf_path is a file with the suffix .pdf: as found by evaluate_all,
\* or as given by the caller of evaluate_visual.
PdfPathValid ==
  \/ sub.entry = "evaluate_all"
  \/ sub.answer.kind = "file" /\ sub.answer.suffix = ".pdf"

\* gemini.py 101-106: the path is checked and the file is read, which may fail
CheckPdfPath ==
  /\ sub # Unset
  /\ sub.pc = "pdf"
  /\ IF ~PdfPathValid THEN Raised("ValueError")
     ELSE \/ sub' = [sub EXCEPT !.pc = "request"]
          \/ Raised("PermissionError")
  /\ UNCHANGED <<extractorVars, report, fs, inv>>

\* gemini.py 63-67 and 119-123: the remote service answers with some text, or
\* the request fails
GenerateContent ==
  /\ sub # Unset
  /\ sub.pc = "request"
  /\ \/ \E response \in Responses : sub' = [sub EXCEPT !.pc = "response", !.response = response]
     \/ Raised("APIError")
  /\ UNCHANGED <<extractorVars, report, fs, inv>>

\* Where evaluate_all goes on once the evaluation of `key` has its result.
AfterEvaluation == [dax |-> "visual", visual |-> "write", write |-> "summary"]

\* gemini.py 69-80 and 125-136: the text is parsed and checked, and the result
\* goes to the caller
ReadResponse ==
  /\ sub # Unset
  /\ sub.pc = "response"
  /\ LET outcome == StructuredResult(sub.response)
     IN IF outcome.status = "raised" THEN Raised(outcome.error)
        ELSE IF sub.entry = "evaluate_all"
        THEN sub' = [sub EXCEPT !.results[sub.key] = outcome.value,
                                !.pc = AfterEvaluation[sub.key]]
        ELSE sub' = [sub EXCEPT !.value = outcome.value, !.pc = "returned"]
  /\ UNCHANGED <<extractorVars, report, fs, inv>>

\* The keys of `results`, in insertion order.
EvaluationKeys == <<"dax", "visual", "write">>

Str_Rule == [i \in 1..70 |-> "="]
Str_EVALUATION == <<" ", "E", "V", "A", "L", "U", "A", "T", "I", "O", "N">>
Str_ScoreLabel == <<"S", "c", "o", "r", "e", ":", " ">>
Str_OutOf100 == <<"/", "1", "0", "0">>
Str_NoEvaluations == <<"N", "o", " ", "e", "v", "a", "l", "u", "a", "t", "i", "o", "n", "s", " ", "c", "o", "m", "p", "l", "e", "t", "e", "d", ".">>

\* key.upper()
Upper == [dax |-> <<"D", "A", "X">>, visual |-> <<"V", "I", "S", "U", "A", "L">>, write |-> <<"W", "R", "I", "T", "E">>]

\* f"{x}" for a value of a result
Text(x) == IF x.t = "num" THEN Decimal(x.v) ELSE Fmt(x)

\* core.py 142-148: the block of one evaluation
FeedbackBlock(key, value) ==
  Str_Rule \o <<"\n">> \o Upper[key] \o Str_EVALUATION \o <<"\n">> \o Str_Rule \o <<"\n">>
    \o Str_ScoreLabel \o Text(value.v["score"]) \o Str_OutOf100 \o <<"\n", "\n">>
    \o Text(value.v["feedback"]) \o <<"\n">>

\* value['score'] and value['feedback'] raise unless value is a mapping that
\* holds them.
SubscriptRaises(value) ==
  value.t # "dict" \/ "score" \notin DOMAIN value.v \/ "feedback" \notin DOMAIN value.v

RECURSIVE Sum(_)
\* sum(scores)
Sum(scores) == IF scores = <<>> THEN 0 ELSE Head(scores).v + Sum(Tail(scores))

\* round(x, 2) of the quotient total / count, in hundredths. The scores are
\* whole numbers and count is at most 3, so no quotient lies halfway between
\* two hundredths.
Round2(total, count) == (200 * total + count) \div (2 * count)

\* Mutant of AvgScore: the sum is divided by the number of evaluations there are.
AvgScoreOfThree(scores) == Round2(Sum(scores), Len(EvaluationKeys))

\* core.py 150 and 153: round(sum(scores) / len(scores) if scores else 0, 2),
\* in hundredths
AvgScore(scores) == IF scores # <<>> THEN Round2(Sum(scores), Len(scores)) ELSE 0

\* core.py 136-157: the summary of the results, or the exception
SummaryOf(results) ==
  LET keys == SelectSeq(EvaluationKeys, LAMBDA key : results[key] # None)
      scores == [i \in 1..Len(keys) |-> results[keys[i]].v["score"]]
      feedback_parts == [i \in 1..Len(keys) |-> FeedbackBlock(keys[i], results[keys[i]])]
  IN IF \E i \in 1..Len(keys) : SubscriptRaises(results[keys[i]]) THEN Raises("TypeError")
     ELSE IF \E i \in 1..Len(keys) : scores[i].t # "num" THEN Raises("TypeError")
     ELSE Returns([score |-> AvgScore(scores),
                   feedback |-> IF feedback_parts # <<>> THEN Join(<<"\n">>, feedback_parts)
                                ELSE Str_NoEvaluations])

\* core.py 136-157: the summary is built and returned
ReturnSummary ==
  /\ sub # Unset
  /\ sub.pc = "summary"
  /\ LET outcome == SummaryOf(sub.results)
     IN IF outcome.status = "raised" THEN Raised(outcome.error)
        ELSE sub' = [sub EXCEPT !.summary = outcome.value, !.pc = "returned"]
  /\ UNCHANGED <<extractorVars, report, fs, inv>>

\* The paths evaluate_visual is called with directly.
PdfPaths ==
  {Answer("file", ".pdf", "none", {}), Answer("file", ".txt", "none", {}),
   Answer("missing", "", "none", {}), Answer("folder", "", "none", {".pdf"})}

NoQuestions == [dax |-> FALSE, visual |-> FALSE, write |-> FALSE]

InitSubmission ==
  /\ Quiet
  /\ fs = EmptyDict
  /\ inv = EmptyDict
  /\ \/ \E answer \in Answers, questions \in Questions :
          sub = NewCall("evaluate_all", answer, questions)
     \/ \E answer \in Answers : sub = NewCall("extract_zip_to_temp", answer, NoQuestions)
     \/ sub = [NewCall("Gemini.evaluate", Answer("file", ".txt", "none", {}), NoQuestions)
                 EXCEPT !.pc = "request"]
     \/ \E pdf_path \in PdfPaths :
          sub = [NewCall("Gemini.evaluate_visual", pdf_path, NoQuestions) EXCEPT !.pc = "pdf"]

NextSubmission ==
  \/ PrepareAnswerPath
  \/ CheckZip
  \/ MakeTempDir
  \/ ExtractAll
  \/ RemoveTempDir
  \/ ReturnTempDir
  \/ EvaluateDax
  \/ EvaluateVisual
  \/ EvaluateWrite
  \/ CheckPdfPath
  \/ GenerateContent
  \/ ReadResponse
  \/ ReturnSummary

SpecSubmission == InitSubmission /\ [][NextSubmission]_vars

\* ------------------------------------------------- the source, as documented

\* These read the input tree by the wording of the documentation, without the
\* extractor's helpers, so that the properties below compare the extractor's
\* result with an independent reading of its input.

\* A flag that is present with a truthy value.
FlagSet(d, key) ==
  key \in DOMAIN d /\ d[key] \notin {None, B(FALSE), N(0), S(<<>>), L(<<>>), D(EmptyDict)}

\* s contains needle as a contiguous, case-sensitive substring.
HasSubstring(s, needle) ==
  \E i \in 1..Len(s) : i + Len(needle) - 1 <= Len(s) /\ SubSeq(s, i, i + Len(needle) - 1) = needle

\* The list under key when it is present and a list, else the empty list.
SrcList(d, key) == IF key \in DOMAIN d /\ d[key].t = "list" THEN d[key].v ELSE <<>>

SrcRoot ==
  IF "model" \in DOMAIN tree /\ tree["model"].t = "dict" THEN tree["model"].v ELSE tree

SrcTables == SrcList(SrcRoot, "tables")
SrcRels == SrcList(SrcRoot, "relationships")

SrcName(d) == IF "name" \in DOMAIN d THEN d["name"] ELSE None

SrcExcluded(table) == FlagSet(table.v, "isHidden") \/ FlagSet(table.v, "isPrivate")
SrcIncluded(table) == ~SrcExcluded(table)

\* The source tables that are neither hidden nor private, in source order.
SrcIncludedTables == SelectSeq(SrcTables, SrcIncluded)

Returned == pc = "done"

\* ------------------------------------------------------------------ claims

\* C1: no table whose isHidden or isPrivate is truthy appears in `tables`, and
\* no measure declared in such a table appears in the flattened `measures`;
\* every other table appears in `tables` exactly once, in source order.
C1_HiddenTablesExcluded ==
  Returned =>
    /\ Len(grading_info.tables) = Len(SrcIncludedTables)
    /\ \A j \in 1..Len(SrcIncludedTables) :
         grading_info.tables[j].name = SrcName(SrcIncludedTables[j].v)
    /\ \A i \in 1..Len(SrcTables) :
         SrcExcluded(SrcTables[i]) =>
           \A d \in 1..Len(SrcList(SrcTables[i].v, "measures")) :
             ~\E j \in 1..Len(grading_info.measures) :
                /\ grading_info.measures[j].table = SrcName(SrcTables[i].v)
                /\ grading_info.measures[j].name =
                     SrcName(SrcList(SrcTables[i].v, "measures")[d].v)

\* C1's case: a private table declaring a measure precedes an included table.
C1_Witness ==
  /\ Returned
  /\ Len(SrcTables) >= 2
  /\ FlagSet(SrcTables[1].v, "isPrivate")
  /\ ~FlagSet(SrcTables[1].v, "isHidden")
  /\ SrcList(SrcTables[1].v, "measures") # <<>>
  /\ SrcIncluded(SrcTables[2])
  /\ Len(grading_info.tables) = 1

SrcRelExcluded(rel) ==
  /\ "toTable" \in DOMAIN rel.v
  /\ rel.v["toTable"].t = "str"
  /\ HasSubstring(rel.v["toTable"].v, Str_LocalDateTable)

SrcRelIncluded(rel) == ~SrcRelExcluded(rel)

SrcIncludedRels == SelectSeq(SrcRels, SrcRelIncluded)

\* C2: a source relationship is excluded from `relationships` if and only if
\* its toTable string contains "LocalDateTable" as a case-sensitive substring
\* at any position; all others are included, in source order, whatever their
\* fromTable.
C2_LocalDateTableRelsExcluded ==
  Returned =>
    /\ Len(grading_info.relationships) = Len(SrcIncludedRels)
    /\ \A j \in 1..Len(SrcIncludedRels) :
         grading_info.relationships[j] = RelInfo(SrcIncludedRels[j].v)

\* C2's case: a relationship whose toTable holds the marker in the middle is
\* left out, next to one that is kept although its fromTable holds the marker.
C2_Witness ==
  /\ Returned
  /\ Len(grading_info.relationships) = 1
  /\ \E i \in 1..Len(SrcRels) :
       /\ SrcRelExcluded(SrcRels[i])
       /\ ~StartsAt(SrcRels[i].v["toTable"].v, Str_LocalDateTable, 1)
       /\ SubSeq(SrcRels[i].v["toTable"].v,
                 Len(SrcRels[i].v["toTable"].v) - Len(Str_LocalDateTable) + 1,
                 Len(SrcRels[i].v["toTable"].v)) # Str_LocalDateTable
  /\ \E i \in 1..Len(SrcRels) :
       /\ SrcRelIncluded(SrcRels[i])
       /\ "fromTable" \in DOMAIN SrcRels[i].v
       /\ HasSubstring(SrcRels[i].v["fromTable"].v, Str_LocalDateTable)

\* A hierarchy tagged as boilerplate: some annotation entry is a mapping whose
\* name is "TemplateId".
SrcHierarchyTagged(h) ==
  \E i \in 1..Len(SrcList(h.v, "annotations")) :
     /\ SrcList(h.v, "annotations")[i].t = "dict"
     /\ "name" \in DOMAIN SrcList(h.v, "annotations")[i].v
     /\ SrcList(h.v, "annotations")[i].v["name"] = S(Str_TemplateId)

SrcHierarchyKept(h) == ~SrcHierarchyTagged(h)

\* The hierarchies expected of one source table, in declaration order.
SrcTableHierarchies(table) ==
  IF FlagSet(table.v, "isHidden") THEN <<>>
  ELSE LET kept == SelectSeq(SrcList(table.v, "hierarchies"), SrcHierarchyKept)
       IN [i \in 1..Len(kept) |-> HierarchyInfo(kept[i].v, table.v)]

RECURSIVE SrcHierarchiesUpTo(_)
\* The hierarchies expected of the first n source tables, in table order.
SrcHierarchiesUpTo(n) ==
  IF n = 0 THEN <<>> ELSE SrcHierarchiesUpTo(n - 1) \o SrcTableHierarchies(SrcTables[n])

SrcIsSheet1(table) == SrcName(table.v) = S(Str_Sheet1)

\* The position, among the included source tables, of the one the summary is
\* about: the first named "Sheet1", else the first, else 0.
SrcMainIndex ==
  IF \E i \in 1..Len(SrcIncludedTables) : SrcIsSheet1(SrcIncludedTables[i])
  THEN CHOOSE i \in 1..Len(SrcIncludedTables) :
         /\ SrcIsSheet1(SrcIncludedTables[i])
         /\ \A j \in 1..(i - 1) : ~SrcIsSheet1(SrcIncludedTables[j])
  ELSE IF SrcIncludedTables # <<>> THEN 1 ELSE 0

\* C4: if an included table is named exactly "Sheet1", summary.main_table is
\* "Sheet1" whatever its position; otherwise it is the name of the first
\* included table; with no included table the summary is the empty mapping.
\* A hidden or private "Sheet1" is never selected.
C4_MainTableSelection ==
  Returned =>
    IF \E i \in 1..Len(SrcIncludedTables) : SrcIsSheet1(SrcIncludedTables[i])
    THEN grading_info.summary.main_table = S(Str_Sheet1)
    ELSE IF SrcIncludedTables # <<>>
    THEN grading_info.summary.main_table = SrcName(SrcIncludedTables[1].v)
    ELSE DOMAIN grading_info.summary = {}

\* C4's case: "Sheet1" is the second included table and is selected.
C4_Witness ==
  /\ Returned
  /\ Len(SrcIncludedTables) = 2
  /\ ~SrcIsSheet1(SrcIncludedTables[1])
  /\ SrcIsSheet1(SrcIncludedTables[2])
  /\ grading_info.summary.main_table = S(Str_Sheet1)

SrcColumnVisible(col) == ~FlagSet(col.v, "isHidden")

SrcVisibleColumns(table) == Len(SelectSeq(SrcList(table.v, "columns"), SrcColumnVisible))

\* C5: whenever the summary is non-empty, total_columns is the number of
\* non-hidden columns of the selected main table only, and total_measures,
\* total_relationships and total_hierarchies are the lengths of the global
\* lists.
C5_SummaryCounts ==
  (Returned /\ DOMAIN grading_info.summary # {}) =>
    /\ SrcMainIndex # 0
    /\ grading_info.summary.total_columns = SrcVisibleColumns(SrcIncludedTables[SrcMainIndex])
    /\ grading_info.summary.total_measures = Len(grading_info.measures)
    /\ grading_info.summary.total_relationships = Len(grading_info.relationships)
    /\ grading_info.summary.total_hierarchies = Len(grading_info.hierarchies)

\* C5's case: two included tables with columns, the second one selected.
C5_Witness ==
  /\ Returned
  /\ Len(SrcIncludedTables) = 2
  /\ SrcMainIndex = 2
  /\ SrcVisibleColumns(SrcIncludedTables[1]) > 0
  /\ SrcVisibleColumns(SrcIncludedTables[2]) < Len(SrcList(SrcIncludedTables[2].v, "columns"))
  /\ grading_info.summary.total_columns = SrcVisibleColumns(SrcIncludedTables[2])
  /\ grading_info.summary.total_measures = 2

Str_SalesYoY == <<"S", "a", "l", "e", "s", " ", "Y", "o", "Y">>

SrcTimeIntelligence(m) ==
  \/ m.expression.t = "str" /\ HasSubstring(m.expression.v, Str_SAMEPERIODLASTYEAR)
  \/ m.name.t = "str" /\ HasSubstring(m.name.v, Str_YoY)

\* C6: has_time_intelligence is true if and only if some measure of the
\* flattened list has an expression containing "SAMEPERIODLASTYEAR" or a name
\* containing "YoY" (both case-sensitive); so it is true for "Sales YoY" with
\* an empty expression and false for differently-cased variants alone.
C6_TimeIntelligence ==
  (Returned /\ DOMAIN grading_info.summary # {}) =>
    (grading_info.summary.has_time_intelligence
       <=> \E j \in 1..Len(grading_info.measures) :
             SrcTimeIntelligence(grading_info.measures[j]))

\* C6's case: the only hit is a measure named "Sales YoY" with an empty
\* expression, beside a lower-case variant.
C6_Witness ==
  /\ Returned
  /\ DOMAIN grading_info.summary # {}
  /\ grading_info.summary.has_time_intelligence
  /\ Len(grading_info.measures) = 2
  /\ grading_info.measures[1].name = S(Str_SalesYoY)
  /\ grading_info.measures[1].expression = S(<<>>)
  /\ grading_info.measures[2].name.t = "str"
  /\ ~SrcTimeIntelligence(grading_info.measures[2])

\* The text searched in a partition that is an "m" query partition with an
\* expression of lines or of one string; <<>> for any other partition.
SrcQueryText(p) ==
  IF /\ p.t = "dict"
     /\ "source" \in DOMAIN p.v
     /\ p.v["source"].t = "dict"
     /\ "type" \in DOMAIN p.v["source"].v
     /\ p.v["source"].v["type"] = S(Str_m)
     /\ "expression" \in DOMAIN p.v["source"].v
  THEN LET expr == p.v["source"].v["expression"]
       IN IF expr.t = "str" THEN expr.v
          ELSE IF expr.t = "list" /\ \A i \in 1..Len(expr.v) : expr.v[i].t = "str"
          THEN Join(<<" ">>, [i \in 1..Len(expr.v) |-> expr.v[i].v])
          ELSE <<>>
  ELSE <<>>

\* The path a partition references through File.Contents("<path>"), or <<>>.
SrcPath(p) == FileContentsPath(SrcQueryText(p))

SrcMatches(p) == SrcPath(p) # <<>>

RECURSIVE SrcPartitionsUpTo(_, _)
\* The partitions of the first n tables of a list, in table then partition order.
SrcPartitionsUpTo(tbls, n) ==
  IF n = 0 THEN <<>>
  ELSE SrcPartitionsUpTo(tbls, n - 1) \o SrcList(tbls[n].v, "partitions")

\* The partitions the extractor visits: those of the included tables.
SrcScanned == SrcPartitionsUpTo(SrcIncludedTables, Len(SrcIncludedTables))

\* Every partition of the document, whatever its table.
SrcAllPartitions == SrcPartitionsUpTo(SrcTables, Len(SrcTables))

SrcFirstMatch(parts) ==
  CHOOSE i \in 1..Len(parts) :
    SrcMatches(parts[i]) /\ \A j \in 1..(i - 1) : ~SrcMatches(parts[j])

SrcFileSource(path) == D([type |-> S(Str_File), path |-> S(path)])

C8_EveryTableScanned ==
  Returned =>
    ((\E i \in 1..Len(SrcAllPartitions) : SrcMatches(SrcAllPartitions[i]))
       => grading_info.data_source # None)

\* C8 as amended: the partitions searched are those of the included tables
\* (neither hidden nor private): a data source is reported if and only if an
\* "m" partition of an included table references a file.
C8_IncludedTablesScanned ==
  Returned =>
    (grading_info.data_source # None
       <=> \E i \in 1..Len(SrcScanned) : SrcMatches(SrcScanned[i]))

\* C8's case: a hidden first table and an included second table both
\* reference a file, and the one reported is the second table's.
C8_Witness ==
  /\ Returned
  /\ Len(SrcTables) = 2
  /\ SrcExcluded(SrcTables[1])
  /\ SrcIncluded(SrcTables[2])
  /\ \E i \in 1..Len(SrcList(SrcTables[1].v, "partitions")) :
       SrcMatches(SrcList(SrcTables[1].v, "partitions")[i])
  /\ grading_info.data_source = SrcFileSource(TableName(2))

\* The key is absent, or holds a list whose entries all satisfy Ok.
SrcOptionalList(d, key, Ok(_)) ==
  key \notin DOMAIN d \/ (d[key].t = "list" /\ \A i \in 1..Len(d[key].v) : Ok(d[key].v[i]))

SrcAny(x) == TRUE
SrcIsMapping(x) == x.t = "dict"

SrcExpressionOk(source) ==
  \/ "expression" \notin DOMAIN source
  \/ source["expression"].t = "str"
  \/ /\ source["expression"].t = "list"
     /\ \A i \in 1..Len(source["expression"].v) : source["expression"].v[i].t = "str"

SrcPartitionOk(p) ==
  /\ p.t = "dict"
  /\ "source" \notin DOMAIN p.v
       \/ (p.v["source"].t = "dict" /\ SrcExpressionOk(p.v["source"].v))

SrcHierarchyOk(h) ==
  /\ h.t = "dict"
  /\ SrcOptionalList(h.v, "annotations", SrcAny)
  /\ SrcOptionalList(h.v, "levels", SrcAny)

SrcTableOk(table) ==
  /\ table.t = "dict"
  /\ SrcOptionalList(table.v, "columns", SrcIsMapping)
  /\ SrcOptionalList(table.v, "measures", SrcIsMapping)
  /\ SrcOptionalList(table.v, "partitions", SrcPartitionOk)
  /\ SrcOptionalList(table.v, "hierarchies", SrcHierarchyOk)

SrcRelOk(rel) ==
  rel.t = "dict" /\ ("toTable" \notin DOMAIN rel.v \/ rel.v["toTable"].t = "str")

\* A tree in which every expected key is either absent or holds a value of the
\* expected shape: the trees that only miss expected fields.
SrcOnlyMissingFields ==
  /\ "model" \notin DOMAIN tree \/ tree["model"].t = "dict"
  /\ SrcOptionalList(SrcRoot, "tables", SrcTableOk)
  /\ SrcOptionalList(SrcRoot, "relationships", SrcRelOk)

\* C9: extract_grading_info never raises on missing-but-expected fields: on a
\* tree in which any subset of the expected keys is absent the call never
\* ends in an exception, and the value it returns holds the documented
\* defaults (empty lists, null, "Unknown").
C9_NoRaiseOnMissingFields ==
  SrcOnlyMissingFields =>
    /\ pc # "raised"
    /\ Returned =>
         /\ "tables" \notin DOMAIN SrcRoot =>
              /\ grading_info.tables = <<>>
              /\ grading_info.measures = <<>>
              /\ grading_info.hierarchies = <<>>
              /\ grading_info.data_source = None
              /\ DOMAIN grading_info.summary = {}
         /\ "relationships" \notin DOMAIN SrcRoot => grading_info.relationships = <<>>
         /\ ("name" \notin DOMAIN tree /\ "name" \notin DOMAIN SrcRoot)
              => grading_info.model_name = S(Str_Unknown)
         /\ ("compatibilityLevel" \notin DOMAIN tree
               /\ "compatibilityLevel" \notin DOMAIN SrcRoot)
              => grading_info.compatibility_level = None
         /\ \A j \in 1..Len(SrcIncludedTables) :
              /\ "name" \notin DOMAIN SrcIncludedTables[j].v
                   => grading_info.tables[j].name = None
              /\ "columns" \notin DOMAIN SrcIncludedTables[j].v
                   => grading_info.tables[j].columns = <<>>
              /\ "measures" \notin DOMAIN SrcIncludedTables[j].v
                   => grading_info.tables[j].measures = <<>>
         /\ (\A j \in 1..Len(SrcIncludedTables) :
               "partitions" \notin DOMAIN SrcIncludedTables[j].v)
              => grading_info.data_source = None
         /\ (\A j \in 1..Len(SrcTables) : "hierarchies" \notin DOMAIN SrcTables[j].v)
              => grading_info.hierarchies = <<>>

\* C9's case: a call returns on a tree with no name, whose one table and one
\* relationship are mappings with no key at all.
C9_Witness ==
  /\ Returned
  /\ SrcOnlyMissingFields
  /\ "name" \notin DOMAIN tree
  /\ Len(SrcTables) = 1
  /\ DOMAIN SrcTables[1].v = {}
  /\ Len(SrcRels) = 1
  /\ DOMAIN SrcRels[1].v = {}
  /\ grading_info.model_name = S(Str_Unknown)
  /\ grading_info.tables = <<[name |-> None, columns |-> <<>>, measures |-> <<>>]>>

\* C10: extraction is deterministic and repeatable: a call on a tree ends as
\* the first call on that tree ended (the same GradingInfo, or an exception
\* again), whatever calls were made in between; no call leaves state behind.
C10_RepeatableExtraction ==
  (pc \in {"done", "raised"} /\ model = tree /\ first # Unset) => Outcome = first

\* C10's case: a repeated call on the tree has returned a result with tables,
\* measures and a data source.
C10_Witness ==
  /\ Returned
  /\ model = tree
  /\ repeating
  /\ tree # OtherTree
  /\ Len(grading_info.tables) = 2
  /\ Len(grading_info.measures) = 2
  /\ grading_info.data_source # None
  /\ Outcome = first

\* The renderer has returned a report.
ReportReturned == report # Unset /\ report.status = "done"

SrcSectionHeaders ==
  {Str_DataSourceHeader, Str_TablesHeader, Str_MeasuresHeader, Str_RelationshipsHeader,
   Str_HierarchiesHeader, Str_SummaryHeader}

SrcIsHeader(line) == line \in SrcSectionHeaders

SrcStartsWith(line, prefix) ==
  Len(line) >= Len(prefix) /\ SubSeq(line, 1, Len(prefix)) = prefix

\* The section headers expected for the result rendered, in order.
SrcHeadersExpected ==
  (IF grading_info.data_source # None THEN <<Str_DataSourceHeader>> ELSE <<>>)
    \o <<Str_TablesHeader, Str_MeasuresHeader, Str_RelationshipsHeader,
         Str_HierarchiesHeader, Str_SummaryHeader>>

\* C18: every report returned opens with the Model and Compatibility Level
\* lines, and its section headers are, in this order and each exactly once,
\* [Data Source,] Tables, Measures (details), Relationships, Hierarchies,
\* Summary, the Data Source header being there if and only if data_source is
\* present.
C18_SectionOrder ==
  ReportReturned =>
    LET lines == SplitLines(report.text)
    IN /\ SrcStartsWith(lines[1], Str_ModelLabel)
       /\ SrcStartsWith(lines[2], Str_CompatibilityLabel)
       /\ SelectSeq(lines, SrcIsHeader) = SrcHeadersExpected

\* C18's case: a report has been rendered for a result with a data source,
\* tables, measures, relationships and hierarchies.
C18_Witness ==
  /\ ReportReturned
  /\ grading_info.data_source # None
  /\ Len(grading_info.tables) >= 2
  /\ grading_info.measures # <<>>
  /\ grading_info.relationships # <<>>
  /\ grading_info.hierarchies # <<>>
  /\ Len(SelectSeq(SplitLines(report.text), SrcIsHeader)) = 6

\* The index of the first of lines equal to header (0 when there is none).
SrcLineIndex(lines, header) ==
  IF \E i \in 1..Len(lines) : lines[i] = header
  THEN CHOOSE i \in 1..Len(lines) :
         lines[i] = header /\ \A j \in 1..(i - 1) : lines[j] # header
  ELSE 0

\* The lines between two section headers.
SrcSectionBody(lines, header, next) ==
  SubSeq(lines, SrcLineIndex(lines, header) + 1, SrcLineIndex(lines, next) - 1)

SrcHasNoneMarker(lines) == \E i \in 1..Len(lines) : lines[i] = Str_NoneMarker

SrcAllListsEmpty ==
  /\ grading_info.tables = <<>>
  /\ grading_info.measures = <<>>
  /\ grading_info.relationships = <<>>
  /\ grading_info.hierarchies = <<>>

\* C19: rendering a result with no tables, measures, relationships or
\* hierarchies does not raise; in every report the Relationships (resp.
\* Hierarchies) section holds the "none" marker if and only if that list is
\* empty, and with no tables the Tables section has no entry.
C19_NoneMarkers ==
  /\ (report # Unset /\ SrcAllListsEmpty) => report.status = "done"
  /\ ReportReturned =>
       LET lines == SplitLines(report.text)
       IN /\ SrcHasNoneMarker(SrcSectionBody(lines, Str_RelationshipsHeader, Str_HierarchiesHeader))
               <=> grading_info.relationships = <<>>
          /\ SrcHasNoneMarker(SrcSectionBody(lines, Str_HierarchiesHeader, Str_SummaryHeader))
               <=> grading_info.hierarchies = <<>>
          /\ grading_info.tables = <<>>
               => SrcSectionBody(lines, Str_TablesHeader, Str_MeasuresHeader) = <<>>

\* C19's case: the report of a result whose four lists are empty.
C19_Witness ==
  /\ ReportReturned
  /\ SrcAllListsEmpty
  /\ LET lines == SplitLines(report.text)
     IN /\ SrcSectionBody(lines, Str_RelationshipsHeader, Str_HierarchiesHeader)
             = <<Str_NoneMarker, <<>>>>
        /\ SrcSectionBody(lines, Str_HierarchiesHeader, Str_SummaryHeader)
             = <<Str_NoneMarker, <<>>>>

\* "model" holds a mapping.
SrcNested == "model" \in DOMAIN tree /\ tree["model"].t = "dict"

\* The key is there with a value other than null.
SrcPresent(d, key) == key \in DOMAIN d /\ d[key] # None

\* The model name by the wording "the root-level name if present, else the
\* nested model's name, else Unknown".
SrcNameIfPresent ==
  IF SrcPresent(tree, "name") THEN tree["name"]
  ELSE IF SrcNested /\ SrcPresent(tree["model"].v, "name") THEN tree["model"].v["name"]
  ELSE S(Str_Unknown)

\* The same with "present" read as "truthy": an empty name counts as missing.
SrcNameIfTruthy ==
  IF FlagSet(tree, "name") THEN tree["name"]
  ELSE IF SrcNested /\ FlagSet(tree["model"].v, "name") THEN tree["model"].v["name"]
  ELSE S(Str_Unknown)

\* tables and relationships come from the mapping under "model" when there is
\* one (lists at the root are then ignored), from the root otherwise.
SrcListsFromResolvedRoot ==
  LET source == IF SrcNested THEN tree["model"].v ELSE tree
      tbls == SelectSeq(SrcList(source, "tables"), SrcIncluded)
      rls == SelectSeq(SrcList(source, "relationships"), SrcRelIncluded)
  IN /\ Len(grading_info.tables) = Len(tbls)
     /\ \A i \in 1..Len(tbls) : grading_info.tables[i].name = SrcName(tbls[i].v)
     /\ Len(grading_info.relationships) = Len(rls)
     /\ \A i \in 1..Len(rls) : grading_info.relationships[i] = RelInfo(rls[i].v)

\* C20 as stated: the lists come from the resolved root, and model_name is the
\* root-level name if present, else the nested model's name, else "Unknown".
C20_RootNameIfPresent ==
  Returned => (SrcListsFromResolvedRoot /\ grading_info.model_name = SrcNameIfPresent)

\* C20 as amended: the lists come from the resolved root, and model_name is the
\* root-level name if it is truthy (present, not null, not empty), else the
\* nested model's name if that is truthy, else "Unknown".
C20_RootResolution ==
  Returned => (SrcListsFromResolvedRoot /\ grading_info.model_name = SrcNameIfTruthy)

\* C20's case: lists under "model" and at the root, an empty root-level name
\* and a nested name: the nested table and the nested name are reported.
C20_Witness ==
  /\ Returned
  /\ SrcNested
  /\ "name" \in DOMAIN tree
  /\ tree["name"] = S(<<>>)
  /\ "tables" \in DOMAIN tree
  /\ SrcList(tree, "tables") # <<>>
  /\ SrcList(tree["model"].v, "tables") # <<>>
  /\ grading_info.tables[1].name = S(<<"I", "n", "n", "e", "r">>)
  /\ Len(grading_info.relationships) = 1
  /\ grading_info.model_name = S(<<"N", "e", "s", "t", "e", "d">>)

\* The function ExtractGradingInfo and the stepwise call agree on every tree.
ExtractAgrees ==
  pc \in {"done", "raised"} /\ model = tree => Outcome = ExtractGradingInfo(D(tree))

\* --- C16

\* The little-endian 16-bit units of b; a stray last byte belongs to none.
SrcUnits(b) == [k \in 1..(Len(b) \div 2) |-> b[2 * k - 1] + 256 * b[2 * k]]

\* Unit k is the high half of a surrogate pair, or its low half.
SrcPairHigh(u, k) == IsHighSurrogate(u[k]) /\ k < Len(u) /\ IsLowSurrogate(u[k + 1])
SrcPairLow(u, k) == IsLowSurrogate(u[k]) /\ k > 1 /\ IsHighSurrogate(u[k - 1])

\* Unit k cannot be decoded: a surrogate that is no half of a pair.
SrcLoneSurrogate(u, k) ==
  (IsHighSurrogate(u[k]) \/ IsLowSurrogate(u[k])) /\ ~SrcPairHigh(u, k) /\ ~SrcPairLow(u, k)

\* b holds a byte sequence that cannot be decoded as little-endian UTF-16.
SrcHasUndecodable(b) ==
  \/ Len(b) % 2 = 1
  \/ \E k \in 1..Len(SrcUnits(b)) : SrcLoneSurrogate(SrcUnits(b), k)

\* The text of b with everything that cannot be decoded left out.
SrcDecodableText(b) ==
  LET u == SrcUnits(b)
  IN Concat([k \in 1..Len(u) |->
               IF SrcPairHigh(u, k)
               THEN <<65536 + (u[k] - 55296) * 1024 + (u[k + 1] - 56320)>>
               ELSE IF SrcPairLow(u, k) \/ SrcLoneSurrogate(u, k) THEN <<>>
               ELSE <<u[k]>>])

\* The invocation has just decoded, and it was the second attempt that did.
SrcFellBack(p) ==
  /\ inv[p].pc \in {"decoded", "unwinding"}
  /\ inv[p].stages = <<"decode">>
  /\ ~DecodeUtf16(inv[p].raw_bytes).ok

SrcBackWithCaller(p) == inv[p].pc \in {"loaded", "extracted", "returned", "failed"}

\* The path was refused by the checks that come before the with block.
SrcRefused(p) == inv[p].path.kind \in {"missing", "not_pbit", "directory"}

\* C11: on every exit path of the facade (return, failure to copy, open or
\* extract the archive, schema not found, decode or parse failure) the
\* workspace the invocation created no longer exists once control is back with
\* the caller; an invocation refused by the path checks never created one.
C11_WorkspaceGone ==
  \A p \in DOMAIN inv :
    /\ SrcBackWithCaller(p) => inv[p].created \cap DOMAIN fs = {}
    /\ SrcBackWithCaller(p) /\ SrcRefused(p) => inv[p].created = {} /\ inv[p].pc = "failed"
    /\ SrcBackWithCaller(p) /\ ~SrcRefused(p) => inv[p].created # {}

\* An invocation that created a workspace has failed inside the with block and
\* is back with its caller.
C11_Witness ==
  \E p \in DOMAIN inv :
    /\ inv[p].pc = "failed"
    /\ inv[p].created # {}
    /\ inv[p].error \in {"JSONDecodeError", "BadZipFile", "ValueError", "PermissionError"}
    /\ DOMAIN fs = {}

\* --- C17

\* The schema names the archive of the invocation holds.
SrcHeld(p) == DOMAIN inv[p].path.entries \cap SchemaNames

\* The name the priority order gives: the bare name if held, else the other.
SrcExpectedName(p) ==
  IF "DataModelSchema" \in SrcHeld(p) THEN "DataModelSchema" ELSE "DataModelSchema.txt"

\* The invocation has extracted a whole archive and looked for the schema.
SrcLooked(p) ==
  /\ inv[p].path.kind = "zip"
  /\ inv[p].pc \notin {"start", "checked", "workspace", "copied", "unzipped"}

\* C17: the document read is "DataModelSchema" whenever the unpacked tree holds
\* it, also when "DataModelSchema.txt" exists too; "DataModelSchema.txt" is read
\* only when the bare name is absent; with neither the call fails with an
\* error and nothing is decoded or parsed.
C17_SchemaPriority ==
  \A p \in DOMAIN inv :
    SrcLooked(p) =>
      IF SrcHeld(p) = {}
      THEN /\ inv[p].pc \in {"unwinding", "failed"}
           /\ inv[p].error = "ValueError"
           /\ inv[p].stages = <<>>
           /\ inv[p].doc = None
      ELSE /\ inv[p].schema = SrcExpectedName(p)
           /\ inv[p].pc # "located" => inv[p].raw_bytes = inv[p].path.entries[SrcExpectedName(p)]

\* Both names are held with different contents, and the bare one was read.
C17_Witness ==
  \E p \in DOMAIN inv :
    /\ SrcLooked(p)
    /\ SrcHeld(p) = SchemaNames
    /\ inv[p].path.entries["DataModelSchema"] # inv[p].path.entries["DataModelSchema.txt"]
    /\ inv[p].pc = "read"
    /\ inv[p].raw_bytes = inv[p].path.entries["DataModelSchema"]

\* --- C15

SrcStageOrder == <<"decode", "parse", "extract", "render">>

\* s is a prefix of t.
SrcIsPrefix(s, t) == Len(s) <= Len(t) /\ \A i \in 1..Len(s) : s[i] = t[i]

\* text is a JSON string: quoted, with no quote, backslash or control inside.
SrcIsJsonString(text) ==
  /\ Len(text) >= 2
  /\ text[1] = 34
  /\ text[Len(text)] = 34
  /\ \A i \in 2..(Len(text) - 1) : text[i] # 34 /\ text[i] # 92 /\ text[i] >= 32

\* text is the empty JSON object, with or without blanks between the braces.
SrcIsEmptyObject(text) ==
  /\ Len(text) >= 2
  /\ text[1] = 123
  /\ text[Len(text)] = 125
  /\ \A i \in 2..(Len(text) - 1) : text[i] \in {32, 9, 10, 13}

\* text, which has no blank at either end and no colon, is a JSON document.
SrcIsJson(text) == SrcIsJsonString(text) \/ SrcIsEmptyObject(text)

\* The stage that raises each kind of error.
SrcStageOf(error) ==
  CASE error = "UnicodeDecodeError" -> "decode"
    [] error = "JSONDecodeError" -> "parse"
    [] error = "AttributeError" -> "extract"
    [] error = "TypeError" -> "render"

\* The stages of an invocation ran one after the other, each after the one
\* before it had succeeded, and a report is returned only after all four.
SrcStagesInOrder(p) ==
  /\ SrcIsPrefix(inv[p].stages, SrcStageOrder)
  /\ Len(inv[p].stages) >= 3 => SrcIsJson(inv[p].raw) /\ inv[p].doc # None
  /\ Len(inv[p].stages) >= 3 /\ inv[p].raw[1] = 34 =>
       inv[p].info.status = "raised" /\ inv[p].pc = "failed"
  /\ Len(inv[p].stages) = 4 => inv[p].info.status = "done"
  /\ inv[p].pc \in {"normalized", "unwinding"} /\ inv[p].stages = <<"decode", "parse">> =>
       ~SrcIsJson(inv[p].raw)
  /\ inv[p].pc = "returned" =>
       /\ inv[p].stages = SrcStageOrder
       /\ inv[p].error = ""
       /\ inv[p].report = GenerateGradingReport(inv[p].info.value)
       /\ inv[p].report.status = "done"
  /\ inv[p].pc \in {"unwinding", "failed"} =>
       /\ inv[p].report = Unset \/ inv[p].report.status = "raised"
       /\ inv[p].error # ""
       /\ inv[p].stages # <<>> => inv[p].error = "ValueError" \/ SrcStageOf(inv[p].error) = inv[p].stages[Len(inv[p].stages)]

\* Once an invocation has raised, the exception it raised is the one that
\* reaches the caller, and no further stage is started.
SrcErrorKept(p) ==
  inv[p].error # "" => inv'[p].error = inv[p].error /\ inv'[p].stages = inv[p].stages

\* C15: the stages run in the order decode, parse, extract, render, each only
\* after the one before it succeeded; a failure of a stage (a JSON syntax error
\* included: nothing is parsed leniently or in part) reaches the caller as
\* raised; analyze_pbit returns a report only when all four stages succeeded.
C15_StrictSequence ==
  /\ [](\A p \in DOMAIN inv : SrcStagesInOrder(p))
  /\ [][\A p \in DOMAIN inv : SrcErrorKept(p)]_vars

\* A document that is no JSON has failed in the parse stage and the failure
\* has reached the caller, with no later stage started.
C15_Witness ==
  \E p \in DOMAIN inv :
    /\ inv[p].pc = "failed"
    /\ inv[p].error = "JSONDecodeError"
    /\ inv[p].stages = <<"decode", "parse">>
    /\ Len(inv[p].raw) > 0
    /\ inv[p].raw[1] = 123

\* --- C14

\* The invocation is inside its with block: its workspace is in use.
SrcInBlock(p) ==
  inv[p].pc \in {"workspace", "copied", "unzipped", "located", "read", "decoded",
                 "normalized", "parsed", "unwinding"}

\* What analyze_pbit gives for a path when nothing else runs: the report, or
\* the exception, of the stages applied one after the other.
SrcAlone(path) ==
  IF path.kind = "missing" THEN [status |-> "failed", error |-> "FileNotFoundError"]
  ELSE IF path.kind \in {"not_pbit", "directory"} THEN [status |-> "failed", error |-> "ValueError"]
  ELSE IF path.kind = "unreadable" THEN [status |-> "failed", error |-> "PermissionError"]
  ELSE IF path.kind \in {"not_zip", "damaged"} THEN [status |-> "failed", error |-> "BadZipFile"]
  ELSE IF DOMAIN path.entries \cap SchemaNames = {} THEN [status |-> "failed", error |-> "ValueError"]
  ELSE LET name == IF "DataModelSchema" \in DOMAIN path.entries THEN "DataModelSchema"
                   ELSE "DataModelSchema.txt"
           doc == JsonLoads(Normalize(DecodeSchema(path.entries[name]).text))
           info == IF doc.ok THEN ExtractGradingInfo(doc.value) ELSE ExtractRaised
           text == IF info.status = "done" THEN GenerateGradingReport(info.value)
                   ELSE [status |-> "raised"]
       IN IF ~doc.ok THEN [status |-> "failed", error |-> "JSONDecodeError"]
          ELSE IF info.status # "done" THEN [status |-> "failed", error |-> "AttributeError"]
          ELSE IF text.status # "done" THEN [status |-> "failed", error |-> "TypeError"]
          ELSE [status |-> "returned", text |-> text.text]

\* What the invocation has handed to its caller.
SrcResult(p) ==
  IF inv[p].pc = "returned" THEN [status |-> "returned", text |-> inv[p].report.text]
  ELSE [status |-> "failed", error |-> inv[p].error]

\* The workspace of p exists and holds what p itself has put there so far.
SrcWorkspaceIntact(p) ==
  /\ inv[p].tmp \in DOMAIN fs
  /\ fs[inv[p].tmp].zip = (inv[p].pc \notin {"workspace"} /\ ~(inv[p].pc = "unwinding" /\ inv[p].path.kind = "unreadable"))
  /\ fs[inv[p].tmp].out =
       IF inv[p].pc \in {"workspace", "copied"} \/ inv[p].path.kind \in {"unreadable", "not_zip"}
       THEN EmptyDict ELSE inv[p].path.entries

\* A lone invocation ends as SrcAlone says.
AloneAgrees ==
  \A p \in DOMAIN inv :
    inv[p].entry = "analyze_pbit" /\ inv[p].pc \in {"returned", "failed"} =>
      SrcResult(p) = SrcAlone(inv[p].path)

\* C14: with two invocations of analyze_pbit interleaved in any order, on the
\* same archive or on different ones, the workspaces in use at the same time
\* are distinct, each workspace holds exactly what its own invocation wrote
\* (no other invocation has overwritten or deleted it), each invocation reads
\* the bytes of its own archive, and each ends with the result it has when run
\* alone.
C14_ConcurrentSafe ==
  /\ \A p, q \in DOMAIN inv :
       p # q /\ SrcInBlock(p) /\ SrcInBlock(q) => inv[p].tmp # inv[q].tmp
  /\ \A p \in DOMAIN inv :
       /\ SrcInBlock(p) => SrcWorkspaceIntact(p)
       /\ inv[p].pc \in {"read", "decoded"} =>
            inv[p].raw_bytes = inv[p].path.entries[inv[p].schema]
       /\ inv[p].pc \in {"returned", "failed"} => SrcResult(p) = SrcAlone(inv[p].path)

\* Two invocations on the same archive are inside their with blocks at the
\* same time, one of them having read its schema.
C14_Witness ==
  /\ DOMAIN inv = {1, 2}
  /\ inv[1].path = inv[2].path
  /\ inv[1].pc = "read"
  /\ inv[2].pc = "unzipped"
  /\ inv[1].tmp # inv[2].tmp
  /\ {inv[1].tmp, inv[2].tmp} \subseteq DOMAIN fs

\* --- C12, C13

\* The call has handed control back to its caller.
SrcCallOver == sub # Unset /\ sub.pc \in {"returned", "failed"}

\* C12: after evaluate_all on a .zip submission has returned or raised, the
\* directory extract_zip_to_temp created for it no longer exists.
C12_TempDirCleaned ==
  SrcCallOver /\ sub.entry = "evaluate_all" /\ sub.answer.suffix = ".zip" =>
    sub.created \cap DOMAIN fs = {}

\* The path is one extract_zip_to_temp refuses before creating anything:
\* missing, not a file, or a file that is no archive.
SrcRefusedZip ==
  sub.answer.kind # "file" \/ sub.answer.suffix # ".zip" \/ sub.answer.archive = "none"

\* C13: whenever extract_zip_to_temp fails no directory created by the call
\* remains (a path refused by the checks never had one created, a failure
\* during extraction removes the directory before the error is raised), and
\* on success the returned directory exists and holds the extracted entries.
C13_NoDirAfterFailure ==
  SrcCallOver /\ sub.entry = "extract_zip_to_temp" =>
    /\ sub.pc = "failed" => sub.created \cap DOMAIN fs = {}
    /\ SrcRefusedZip => sub.pc = "failed" /\ sub.created = {}
    /\ sub.pc = "returned" =>
         /\ sub.temp_dir \in DOMAIN fs
         /\ DOMAIN fs[sub.temp_dir].out = sub.answer.files

\* ------------------------------------------------------------------- C21

\* The measures declared under a table of the tree, in declaration order.
SrcMeasuresOf(table) == SrcList(table.v, "measures")

RECURSIVE SrcConcatMeasures(_, _)
\* The `measures` lists of the first n entries of `tables`, concatenated.
SrcConcatMeasures(tbls, n) ==
  IF n = 0 THEN <<>> ELSE SrcConcatMeasures(tbls, n - 1) \o tbls[n].measures

RECURSIVE SrcMeasureCount(_, _)
SrcMeasureCount(tbls, n) ==
  IF n = 0 THEN 0 ELSE SrcMeasureCount(tbls, n - 1) + Len(tbls[n].measures)

\* C21: the flattened `measures` list is the concatenation, in `tables` order,
\* of each included table's own `measures` list, each of which follows the
\* table's declarations one for one; every measure's `table` field is the name
\* of the table it is nested under; and total_measures is the sum of the
\* per-table measure counts.
C21_MeasuresFlattened ==
  Returned =>
    /\ grading_info.measures =
         SrcConcatMeasures(grading_info.tables, Len(grading_info.tables))
    /\ Len(grading_info.tables) = Len(SrcIncludedTables)
    /\ \A i \in 1..Len(grading_info.tables) :
         /\ Len(grading_info.tables[i].measures) = Len(SrcMeasuresOf(SrcIncludedTables[i]))
         /\ \A j \in 1..Len(grading_info.tables[i].measures) :
              /\ grading_info.tables[i].measures[j].table = SrcName(SrcIncludedTables[i].v)
              /\ grading_info.tables[i].measures[j].name =
                   SrcName(SrcMeasuresOf(SrcIncludedTables[i])[j].v)
    /\ DOMAIN grading_info.summary # {} =>
         grading_info.summary.total_measures =
           SrcMeasureCount(grading_info.tables, Len(grading_info.tables))

\* C21's case: two included tables with one measure each, the flattened list
\* holding the first table's measure before the second's.
C21_Witness ==
  /\ Returned
  /\ Len(SrcIncludedTables) = 2
  /\ Len(grading_info.tables[1].measures) = 1
  /\ Len(grading_info.tables[2].measures) = 1
  /\ grading_info.measures =
       grading_info.tables[1].measures \o grading_info.tables[2].measures
  /\ grading_info.measures[1].table = SrcName(SrcIncludedTables[1].v)
  /\ grading_info.measures[2].table = SrcName(SrcIncludedTables[2].v)
  /\ grading_info.measures[1].table # grading_info.measures[2].table
  /\ grading_info.summary.total_measures = 2

\* ------------------------------------------------------------------- C22

SrcIsBlank(text) == \A i \in 1..Len(text) : text[i] \in Whitespace

\* `text` without its leading and trailing whitespace: the part from the first
\* to the last character that is no whitespace.
SrcTrimmed(text) ==
  IF SrcIsBlank(text) THEN <<>>
  ELSE LET solid == {i \in 1..Len(text) : text[i] \notin Whitespace}
           start == CHOOSE i \in solid : \A j \in solid : i <= j
           stop == CHOOSE i \in solid : \A j \in solid : j <= i
       IN SubSeq(text, start, stop)

SrcLineCounts(entry) == entry.t = "str" /\ ~SrcIsBlank(entry.v)

RECURSIVE SrcJoinLines(_)
\* The texts of the entries, with a newline between neighbours.
SrcJoinLines(entries) ==
  IF entries = <<>> THEN <<>>
  ELSE IF Len(entries) = 1 THEN entries[1].v
  ELSE entries[1].v \o <<"\n">> \o SrcJoinLines(Tail(entries))

\* The expression the statement gives for a declared measure.
SrcExpression(measure) ==
  IF "expression" \notin DOMAIN measure THEN <<>>
  ELSE LET source == measure["expression"]
       IN CASE source.t = "list" -> SrcJoinLines(SelectSeq(source.v, SrcLineCounts))
            [] source.t = "str" -> SrcTrimmed(source.v)
            [] OTHER -> <<>>

\* C22: the expression of every reported measure is, for a source expression
\* that is a sequence, its string entries that are not blank, joined by
\* newlines in their order; for a single string, that string trimmed; and the
\* empty string for any other value or when the key is absent.
C22_ExpressionNormalised ==
  Returned =>
    \A i \in 1..Len(grading_info.tables) :
      \A j \in 1..Len(grading_info.tables[i].measures) :
        grading_info.tables[i].measures[j].expression =
          S(SrcExpression(SrcMeasuresOf(SrcIncludedTables[i])[j].v))

SrcDeclaredExpression(j) == SrcMeasuresOf(SrcIncludedTables[1])[j].v["expression"]

\* C22's case: a sequence with a blank entry and a number among its lines,
\* reported as its two other lines, beside a string reported trimmed.
C22_Witness ==
  /\ Returned
  /\ Len(SrcIncludedTables) = 1
  /\ Len(grading_info.measures) = 2
  /\ \A j \in 1..2 : "expression" \in DOMAIN SrcMeasuresOf(SrcIncludedTables[1])[j].v
  /\ SrcDeclaredExpression(1).t = "list"
  /\ Len(SrcDeclaredExpression(1).v) = 4
  /\ \E k \in 1..4 : SrcDeclaredExpression(1).v[k].t = "num"
  /\ \E k \in 1..4 : SrcDeclaredExpression(1).v[k].t = "str"
                       /\ SrcDeclaredExpression(1).v[k].v # <<>>
                       /\ SrcIsBlank(SrcDeclaredExpression(1).v[k].v)
  /\ Len(SelectSeq(grading_info.measures[1].expression.v, LAMBDA c : c = "\n")) = 1
  /\ SrcDeclaredExpression(2).t = "str"
  /\ grading_info.measures[2].expression.v # <<>>
  /\ Len(grading_info.measures[2].expression.v) < Len(SrcDeclaredExpression(2).v)

\* ------------------------------------------------------------------- C25

\* The columns declared under a table of the tree whose isHidden is not truthy.
SrcShownColumns(table) == SelectSeq(SrcList(table.v, "columns"), SrcColumnVisible)

SrcCalculated(col) == "type" \in DOMAIN col.v /\ col.v["type"] = S(Str_calculated)

\* C25: the `columns` of every included table are the table's declared columns
\* whose isHidden is not truthy, in source order, and is_calculated is true
\* exactly for those whose `type` is "calculated".
C25_ColumnsFiltered ==
  Returned =>
    \A i \in 1..Len(grading_info.tables) :
      LET shown == SrcShownColumns(SrcIncludedTables[i])
          cols == grading_info.tables[i].columns
      IN /\ Len(cols) = Len(shown)
         /\ \A j \in 1..Len(cols) :
              /\ cols[j].name = SrcName(shown[j].v)
              /\ cols[j].is_calculated <=> SrcCalculated(shown[j])

\* C25's case: a column whose isHidden is present but not truthy and whose
\* type is another text is kept as not calculated, before a calculated one.
C25_Witness ==
  /\ Returned
  /\ Len(SrcIncludedTables) = 1
  /\ Len(SrcList(SrcIncludedTables[1].v, "columns")) = 2
  /\ "isHidden" \in DOMAIN SrcList(SrcIncludedTables[1].v, "columns")[1].v
  /\ "type" \in DOMAIN SrcList(SrcIncludedTables[1].v, "columns")[1].v
  /\ SrcList(SrcIncludedTables[1].v, "columns")[1].v["type"].t = "str"
  /\ Len(grading_info.tables[1].columns) = 2
  /\ ~grading_info.tables[1].columns[1].is_calculated
  /\ grading_info.tables[1].columns[2].is_calculated
  /\ grading_info.tables[1].columns[1].name = S(ColumnName(1))
  /\ grading_info.tables[1].columns[2].name = S(ColumnName(2))

\* ------------------------------------------------------------------- C29

\* C29: every entry of `hierarchies` belongs to an included table: its `table`
\* is the name of some entry of `tables`.
C29_HierarchyTableIncluded ==
  Returned =>
    \A k \in 1..Len(grading_info.hierarchies) :
      \E i \in 1..Len(grading_info.tables) :
        grading_info.tables[i].name = grading_info.hierarchies[k].table

\* ------------------------------------------------------------------- C30

\* The container `key` of the resolved root is present and holds null.
SrcNullContainer(key) == key \in DOMAIN SrcRoot /\ SrcRoot[key] = None

SrcCalled == pc # "idle"

\* C30: a tree whose `tables` or `relationships` key holds null is treated as
\* one without the key: the call does not raise, and the value returned has
\* empty tables (and an empty summary), respectively empty relationships.
C30_NullContainersAsAbsent ==
  /\ (SrcCalled /\ SrcNullContainer("tables")) =>
       /\ pc # "raised"
       /\ Returned =>
            /\ grading_info.tables = <<>>
            /\ DOMAIN grading_info.summary = {}
  /\ (SrcCalled /\ SrcNullContainer("relationships")) =>
       /\ pc # "raised"
       /\ Returned => grading_info.relationships = <<>>

\* ------------------------------------------------------------------- C28

\* C28: the renderer is total on the extractor's outputs: whenever
\* extract_grading_info has returned a value and generate_grading_report has
\* been applied to it, the renderer has returned a report text.
C28_RendererTotal ==
  (Returned /\ report # Unset) => report.status = "done"

\* ------------------------------------------------------------------- C23

\* The invocation ended in one of the failures the statement lists: nothing at
\* the path, a wrong suffix or no file, no valid archive, an archive without
\* the schema document, or a schema that is no JSON.
SrcListedFailure(p) ==
  /\ inv[p].pc = "failed"
  /\ \/ inv[p].path.kind \in {"missing", "not_pbit", "directory", "not_zip"}
     \/ inv[p].path.kind = "zip" /\ SrcHeld(p) = {}
     \/ inv[p].error = "JSONDecodeError"

\* C23: every failure of the facade on an input path (file not found, wrong
\* suffix or not a file, not a valid archive, schema document not found,
\* invalid JSON) yields an error that carries the original input path.
C23_FailuresCarryPath ==
  \A p \in DOMAIN inv : SrcListedFailure(p) => "pbit_path" \in inv[p].carried

\* ------------------------------------------------------------------- C24

SrcClientCall == sub # Unset /\ sub.entry \in {"Gemini.evaluate", "Gemini.evaluate_visual"}

\* The remote service has answered and the client has dealt with the answer.
SrcAnswered ==
  /\ sub.pc \in {"returned", "failed"}
  /\ sub.error \notin {"APIError", "PermissionError"}
  /\ sub.entry = "Gemini.evaluate_visual" =>
       (sub.answer.kind = "file" /\ sub.answer.suffix = ".pdf")

SrcTwoFieldMapping(value) ==
  value.t = "dict" /\ {"score", "feedback"} \subseteq DOMAIN value.v

\* C24: the scoring client either returns a mapping containing both `score`
\* and `feedback`, or fails with ValueError: whatever the response text, a
\* value that is returned is such a mapping, and a failure is that ValueError.
C24_StructuredOrValueError ==
  (SrcClientCall /\ SrcAnswered) =>
    \/ sub.pc = "returned" /\ SrcTwoFieldMapping(sub.value)
    \/ sub.pc = "failed" /\ sub.error = "ValueError"

\* ------------------------------------------------------------------- C26

SrcEvaluateAll == sub # Unset /\ sub.entry = "evaluate_all"

\* The evaluations whose question is not None, in the order dax, visual, write.
SrcAsked == SelectSeq(<<"dax", "visual", "write">>, LAMBDA key : sub.questions[key])

RECURSIVE SrcTotal(_)
\* The sum of the scores of the evaluations `keys`.
SrcTotal(keys) ==
  IF keys = <<>> THEN 0 ELSE sub.results[Head(keys)].v["score"].v + SrcTotal(Tail(keys))

\* score (in hundredths) is the mean of the scores of `keys` rounded to two
\* decimals: no other number of hundredths is nearer to the mean.
SrcIsRoundedMean(score, keys) ==
  LET off == 100 * SrcTotal(keys) - Len(keys) * score
  IN 2 * off <= Len(keys) /\ -2 * off <= Len(keys)

RECURSIVE SrcBlocks(_)
\* The feedback blocks of the evaluations `keys`, one after the other.
SrcBlocks(keys) ==
  IF keys = <<>> THEN <<>>
  ELSE FeedbackBlock(Head(keys), sub.results[Head(keys)])
         \o (IF Len(keys) > 1 THEN <<"\n">> ELSE <<>>) \o SrcBlocks(Tail(keys))

\* C26: the summary evaluate_all returns has as its score the arithmetic mean,
\* rounded to 2 decimals, of the scores of exactly the evaluations whose
\* question is not None, and as its feedback their blocks in the order dax,
\* visual, write; with no question at all the score is 0 and the feedback is
\* "No evaluations completed.".
C26_SummaryIsMean ==
  (SrcEvaluateAll /\ sub.pc = "returned") =>
    /\ \A key \in {"dax", "visual", "write"} :
         (sub.results[key] = None) <=> ~sub.questions[key]
    /\ IF SrcAsked = <<>>
       THEN sub.summary.score = 0 /\ sub.summary.feedback = Str_NoEvaluations
       ELSE /\ SrcIsRoundedMean(sub.summary.score, SrcAsked)
            /\ sub.summary.feedback = SrcBlocks(SrcAsked)

\* C26's case: the visual question is None, the other two evaluations scored
\* 100 and 70, and the summary holds 85.00 with the DAX block before the WRITE
\* block.
C26_Witness ==
  /\ SrcEvaluateAll
  /\ sub.pc = "returned"
  /\ SrcAsked = <<"dax", "write">>
  /\ sub.results["dax"].v["score"] = N(100)
  /\ sub.results["write"].v["score"] = N(70)
  /\ sub.summary.score = 8500
  /\ sub.summary.feedback =
       FeedbackBlock("dax", sub.results["dax"]) \o <<"\n">>
         \o FeedbackBlock("write", sub.results["write"])

\* ------------------------------------------------------------------- C27

SrcSuffix == [dax |-> ".pbit", visual |-> ".pdf", write |-> ".txt"]
SrcRank == [dax |-> 1, visual |-> 2, write |-> 3]
SrcKeys == {"dax", "visual", "write"}

\* The evaluations that come before `key`.
SrcEarlier(key) == {k \in SrcKeys : SrcRank[k] < SrcRank[key]}

\* How many times the model has been invoked for `key`.
SrcInvocations(key) == Cardinality({i \in DOMAIN sub.invoked : sub.invoked[i] = key})

\* A file with the extension of `key` is at the working path: the answer is
\* such a file, or a folder holding one, or an archive that was unpacked and
\* held one.
SrcFileFound(key) ==
  \/ sub.answer.kind = "file" /\ sub.answer.suffix = SrcSuffix[key]
  \/ sub.answer.kind = "folder" /\ SrcSuffix[key] \in sub.answer.files
  \/ /\ sub.answer.kind = "file"
     /\ sub.answer.suffix = ".zip"
     /\ sub.answer.archive = "ok"
     /\ SrcSuffix[key] \in sub.answer.files

\* evaluate_all is over, and it came to the evaluation of `key`: the working
\* path was prepared and every earlier evaluation gave its result.
SrcCameTo(key) ==
  /\ SrcEvaluateAll
  /\ sub.pc \in {"returned", "failed"}
  /\ sub.working # ""
  /\ \A k \in SrcEarlier(key) : sub.results[k] # Unset

\* Without a question the model is never invoked and nothing is counted.
SrcNothingCounted(key) ==
  /\ SrcInvocations(key) = 0
  /\ sub.results[key] = None
  /\ sub.pc = "returned" => \A i \in DOMAIN SrcAsked : SrcAsked[i] # key

\* Without a file the model is not invoked, the result is the score 0 with the
\* feedback "Unable to evaluate submission.", and the 0 is in the average.
SrcZeroCounted(key) ==
  /\ SrcInvocations(key) = 0
  /\ sub.results[key].t = "dict"
  /\ DOMAIN sub.results[key].v = {"score", "feedback"}
  /\ sub.results[key].v["score"] = N(0)
  /\ SubSeq(sub.results[key].v["feedback"].v, 1, Len(Str_Unable)) = Str_Unable
  /\ sub.pc = "returned" =>
       /\ \E i \in DOMAIN SrcAsked : SrcAsked[i] = key
       /\ SrcIsRoundedMean(sub.summary.score, SrcAsked)

\* The evaluations run in the order dax, visual, write, each at most once, and
\* a failure in one leaves the later ones undone and the call without summary.
SrcInOrder ==
  SrcEvaluateAll =>
    /\ \A i, j \in DOMAIN sub.invoked :
         i < j => SrcRank[sub.invoked[i]] < SrcRank[sub.invoked[j]]
    /\ \A key \in SrcKeys :
         (sub.results[key] # Unset \/ SrcInvocations(key) > 0) =>
           \A k \in SrcEarlier(key) : sub.results[k] # Unset
    /\ sub.summary # Unset => \A key \in SrcKeys : sub.results[key] # Unset
    /\ sub.pc = "failed" => sub.summary = Unset

\* C27, as stated: in evaluate_all, for each of dax, visual, write: without a
\* question the model is never invoked and nothing is counted; with a question
\* but no file of the extension at the working path the model is not invoked
\* and the result is the score 0, counted in the average; otherwise the model
\* is invoked exactly once; the evaluations run in the order dax, visual, write
\* and a failure in one prevents the later ones and any summary.
C27_InvokedOnceOtherwise ==
  /\ SrcInOrder
  /\ \A key \in SrcKeys :
       SrcCameTo(key) =>
         IF ~sub.questions[key] THEN SrcNothingCounted(key)
         ELSE IF ~SrcFileFound(key) THEN SrcZeroCounted(key)
         ELSE SrcInvocations(key) = 1

\* The file of `key` was found but could not be made into an answer for the
\* model (analyze_pbit on the .pbit file, read_text on the .txt file): the
\* call has failed there, before the model was invoked.
SrcFailedPreparing(key) ==
  /\ key \in {"dax", "write"}
  /\ SrcInvocations(key) = 0
  /\ sub.pc = "failed"
  /\ sub.results[key] = Unset

\* C27, amended: as stated, but with a question and a file the model is
\* invoked exactly once unless preparing the answer from the .pbit or .txt
\* file fails, in which case it is not invoked and evaluate_all raises.
C27_InvokedOnceUnlessPreparingFails ==
  /\ SrcInOrder
  /\ \A key \in SrcKeys :
       SrcCameTo(key) =>
         IF ~sub.questions[key] THEN SrcNothingCounted(key)
         ELSE IF ~SrcFileFound(key) THEN SrcZeroCounted(key)
         ELSE SrcInvocations(key) = 1 \/ SrcFailedPreparing(key)

\* C27's cases together: no dax question, a visual question without a .pdf
\* file, a written question with a .txt file; the model was invoked once, for
\* write, and the summary averages 0 and the written score.
C27_Witness ==
  /\ SrcCameTo("write")
  /\ sub.pc = "returned"
  /\ ~sub.questions["dax"] /\ sub.results["dax"] = None
  /\ sub.questions["visual"] /\ ~SrcFileFound("visual")
  /\ sub.results["visual"].v["score"] = N(0)
  /\ sub.questions["write"] /\ SrcFileFound("write")
  /\ sub.invoked = <<"write">>
  /\ sub.results["write"].v["score"] = N(70)
  /\ sub.summary.score = 3500

====
